---- MODULE Spec2Model ----
(***************************************************************************)
(* Model of the file-backed persistent store of bplib (store/file.c): one  *)
(* store handle, its bucket files, relinquish tables, data cache, and the  *)
(* threads that call enqueue / dequeue / retrieve / release / relinquish / *)
(* getcount on it.                                                         *)
(*                                                                         *)
(* Files are sequences of cells.  A record of a .dat file is               *)
(*     <<object_size, header>> \o data1 \o data2                           *)
(* where the first cell is the uint32 size word, the second cell stands    *)
(* for bp_object_hdr_t (it carries the header's size field; its handle and *)
(* vacant sid are the same in every record) and every payload byte is one  *)
(* cell.  File positions and sizes count cells.                            *)
(***************************************************************************)
EXTENDS Integers, Sequences, FiniteSets, TLC

(* ------------------------------ bounds --------------------------------- *)

\* successful enqueues in a run
MaxEnq == 2
\* successful enqueues in a run that goes on into the second bucket
MaxEnqB == 3
\* successful enqueues in a run of overlapping calls
MaxEnqC == 1
\* injected I/O and OS failures per run
MaxFaults == 1
\* attr->cache_size of the store under test
CacheSize == 1
\* records per bucket file: 256 in the source (file.c:31), scaled down, with
\* GET_FILEID / GET_DATAOFFSET scaled with it
FILE_DATA_COUNT == 2

\* slots of the table of stores: 60 in the source (file.c:43), scaled down
FILE_MAX_STORES == 3
\* calls of create in a run that find a free slot
MaxCreates == 4
\* slots of the cache when attr gives no size: 16384 in the source
\* (file.c:37), scaled down
FILE_DEFAULT_CACHE_SIZE == 2

\* blocks of the memory pool
MaxBlocks == 3
\* references to one block at a time
MaxRefs == 3
\* depth limits of the sub-queue and the number of append calls
MaxDepth == 3
MaxAppends == 6
\* flows of the pool and sweeps of the active list
MaxFlows == 3
MaxSweeps == 3
\* blocks of the list model, the first MaxHeads of which serve as list heads
MaxNodes == 5
MaxHeads == 2

Threads == {1, 2}
\* the sids callers pass
Sids == 1 .. MaxEnq
\* the (data1, data2) pairs offered to the n-th successful enqueue: the
\* payloads differ from record to record, in content and in length
Inputs == << { << <<11>>, <<>> >> }, { << <<21>>, <<22>> >> }, { << <<31>>, <<>> >> },
            { << <<41>>, <<42>> >> }, { << <<51>>, <<>> >> } >>
\* the places where an I/O or OS call can be made to fail
Sites == { "open", "seek", "replay", "write", "flush", "read", "wait",
           "tbl_open", "tbl_write", "tbl_open_new", "tbl_read", "remove", "remove_tbl" }
\* BP_CHECK (poll), a finite wait, BP_PEND (wait for ever)
BP_CHECK == 0
BP_PEND == -1
Timeouts == {BP_CHECK, 1, BP_PEND}

(* ----------------------------- constants ------------------------------- *)

FILE_MEM_LOCKED == 1
FILE_MEM_AVAIABLE == 0
BP_SID_VACANT == 0
\* sizeof(bp_object_hdr_t) in cells
HdrSize == 1
\* sizeof(uint32_t object_size) in cells
SizeWord == 1
NULL == 0
\* cells of the longest record enqueue writes
MaxRecord == SizeWord + HdrSize + 2

BP_SUCCESS == "BP_SUCCESS"
BP_TIMEOUT == "BP_TIMEOUT"
BP_FAILEDSTORE == "BP_FAILEDSTORE"

\* (uint32_t)(sid - 1): sid 0 wraps to the largest data id.  TLC's integers are
\* 32-bit signed, so the wrap is taken modulo 2^30 instead of 2^32; every other
\* sid of the model is far from it.
GET_DATAID(sid) == (sid - 1) % 1073741824
GET_FILEID(did) == did \div FILE_DATA_COUNT
GET_DATAOFFSET(did) == did % FILE_DATA_COUNT

(* ------------------------------ helpers -------------------------------- *)

Min(a, b) == IF a < b THEN a ELSE b

\* BP_FILE (FILE* ): the inode it is open on and its position; NullFd is BP_FILE_NULL
BP_INVALID_HANDLE == -1
FILE_MAX_FILENAME == 256
\* strlen(FILE_DEFAULT_ROOT)
DefaultRootLen == 6

NullFd == [ino |-> 0, pos |-> 0]

NoFault == [site |-> "none", k |-> 0]

\* data_cache_t after memset 0
EmptySlot == [mem_ptr |-> NULL, mem_locked |-> FILE_MEM_AVAIABLE, mem_data_id |-> 0]

\* free_table_t after memset 0
ZeroTable == [freed |-> [i \in 0 .. (FILE_DATA_COUNT - 1) |-> 0], free_cnt |-> 0]

\* the record enqueue writes for (data1, data2)
Record(data1, data2) ==
    << HdrSize + Len(data1) + Len(data2), Len(data1) + Len(data2) >> \o data1 \o data2

Prefix(seq, n) == SubSeq(seq, 1, n)

\* the "read size word, fseek over the object" loop of enqueue, dequeue and
\* retrieve: cnt records are skipped from pos; the iteration numbered failAt
\* (from 0) suffers an injected failure.  A seek beyond the end of the file
\* succeeds and the next read of a size word fails.
RECURSIVE SkipRecords(_, _, _, _)
SkipRecords(content, pos, cnt, failAt) ==
    IF cnt = 0 THEN [ok |-> TRUE, pos |-> pos, hit |-> FALSE]
    ELSE IF failAt = 0 THEN [ok |-> FALSE, pos |-> pos, hit |-> TRUE]
    ELSE IF pos + SizeWord > Len(content) THEN [ok |-> FALSE, pos |-> pos, hit |-> FALSE]
    ELSE SkipRecords(content, pos + SizeWord + content[pos + 1], cnt - 1, failAt - 1)

VARIABLES
    fs,         \* file_store_t of the handle under test
    dat,        \* directory of .dat files: file_id -> inode
    ino,        \* inode contents (a deleted file lives on while an fd is open on it)
    tbl,        \* directory of .tbl files: file_id -> cells
    mem,        \* heap: live object pointers -> object
    lock,       \* owner of fs->lock (0: free)
    pc,         \* per thread: where it is inside its call
    loc,        \* per thread: arguments and locals of its call
    held,       \* per thread: objects handed to it and not yet released by it
    uaf,        \* the last step freed an object that another thread still held
    enq,        \* payload of every successful enqueue, in order
    relq,       \* sids marked freed by relinquish
    ndec,       \* number of data_count decrements performed by relinquish
    last,       \* the call that returned last
    faults,     \* failures injected so far
    cfg,        \* the run's bounds: callers, overlap of calls, arguments, failures
    early,      \* relinquish has been called for a sid that had not been dequeued
    file_stores,      \* the table of stores: slot -> file_store_t
    file_service_id,  \* the next service id create hands out
    created,    \* the last create or destroy and what it returned
    pool,       \* the blocks of the memory pool: type tag, refcount, references
    pool_last,  \* the last operation on a reference and the refcount before it
    subq,       \* one bplib_mpool_subq_t: its list, depth limit and drop count
    flows,      \* the pool's active-flows list and the callbacks of the last sweep
    links,      \* next and prev of every bplib_mpool_block_t of the list model
    res         \* what the stores of the table hold: heap allocations, open files

vars == << fs, dat, ino, tbl, mem, lock, pc, loc, held, uaf, enq, relq, ndec, last, faults, cfg, early, file_stores, file_service_id, created, pool, pool_last, subq, flows, links, res >>

(* --------------------------- initial state ----------------------------- *)

\* the store as bplib_store_file_create leaves it
CreatedStore ==
    [ data_count         |-> 0,
      write_fd           |-> NullFd,
      write_data_id      |-> 1,
      write_error        |-> FALSE,
      read_fd            |-> NullFd,
      read_data_id       |-> 1,
      read_error         |-> FALSE,
      retrieve_fd        |-> NullFd,
      retrieve_data_id   |-> 1,
      relinquish_fd      |-> NullFd,
      relinquish_data_id |-> 1,
      relinquish_table   |-> ZeroTable,
      data_cache         |-> [i \in 0 .. (CacheSize - 1) |-> EmptySlot],
      cache_size         |-> CacheSize ]

EmptyMap == [x \in {} |-> 0]

Slots == 0 .. (FILE_MAX_STORES - 1)

\* file_store_t after memset 0; a path is modelled by its length, a pointer to
\* no cache by the empty array
ZeroStore ==
    [ in_use             |-> FALSE,
      service_id         |-> 0,
      lock               |-> 0,
      file_root          |-> NULL,
      data_count         |-> 0,
      write_fd           |-> NullFd,
      write_data_id      |-> 0,
      write_error        |-> FALSE,
      read_fd            |-> NullFd,
      read_data_id       |-> 0,
      read_error         |-> FALSE,
      retrieve_fd        |-> NullFd,
      retrieve_data_id   |-> 0,
      relinquish_fd      |-> NullFd,
      relinquish_data_id |-> 0,
      relinquish_table   |-> ZeroTable,
      data_cache         |-> EmptyMap,
      cache_size         |-> 0 ]

NoAttr == [root_len |-> 0, cache_size |-> 0]

bplib_mpool_blocktype_undefined == 0
bplib_mpool_blocktype_head == 1
bplib_mpool_blocktype_ref == 2
bplib_mpool_blocktype_cbor_data == 3
bplib_mpool_blocktype_primary == 5
bplib_mpool_blocktype_flow == 7

Blocks == 1 .. MaxBlocks

\* the block types that carry a refcount
RefcountTypes == bplib_mpool_blocktype_cbor_data .. bplib_mpool_blocktype_flow

\* a pool whose blocks are all on the free list
EmptyPool ==
    [ type     |-> [b \in Blocks |-> bplib_mpool_blocktype_undefined],
      refcount |-> [b \in Blocks |-> 0],
      light    |-> [b \in Blocks |-> 0],
      heavy    |-> [b \in Blocks |-> 0],
      recycled |-> {},
      target   |-> [b \in Blocks |-> 0],
      onlist   |-> [b \in Blocks |-> FALSE],
      fired    |-> [b \in Blocks |-> 0] ]

NoRefOp == [op |-> "none", blk |-> 0, before |-> 0]

NoCreate ==
    [ tick |-> 0, op |-> "none", handle |-> 0, attr |-> NoAttr, fail |-> "none",
      reuse |-> FALSE ]

IdleLoc ==
    [ sid |-> 0, timeout |-> 0, object_ptr |-> NULL, data_id |-> 0, tmp |-> 0,
      signaled |-> FALSE, pre |-> <<>> ]

NoCall ==
    [ tick |-> 0, op |-> "none", sid |-> 0, status |-> "none", why |-> "none",
      obj |-> NULL, val |-> 0, again |-> FALSE, deq |-> {} ]

\* a sub-queue with nothing queued; appended, accepted and shifted record the
\* calls made on it
EmptySubq(limit) ==
    [ block_list |-> <<>>, current_depth_limit |-> limit, drop_count |-> 0,
      appended |-> 0, accepted |-> <<>>, shifted |-> <<>>,
      op |-> "none", ret |-> NULL ]

Flows == 1 .. MaxFlows

\* no flow is active and no sweep has run
NoFlows ==
    [ active |-> <<>>, calls |-> [f \in Flows |-> 0], marked |-> {},
      carried |-> {}, sweeps |-> 0, ret |-> 0 ]

Nodes == 1 .. MaxNodes
Heads == 1 .. MaxHeads

\* the blocks before any list operation: the heads are new (links not yet
\* written), every other block is a singleton as the pool hands it out
NewLinks ==
    [ next |-> [n \in Nodes |-> IF n \in Heads THEN NULL ELSE n],
      prev |-> [n \in Nodes |-> IF n \in Heads THEN NULL ELSE n],
      type |-> [n \in Nodes |-> IF n \in Heads THEN bplib_mpool_blocktype_undefined
                                ELSE bplib_mpool_blocktype_cbor_data],
      last |-> [op |-> "none", a |-> 0, b |-> 0] ]

\* no store holds memory or an open file
NoResources == [heap |-> {}, fds |-> {}]

InitBase ==
    /\ fs = CreatedStore
    /\ dat = EmptyMap
    /\ ino = <<>>
    /\ tbl = EmptyMap
    /\ mem = EmptyMap
    /\ lock = 0
    /\ pc = [t \in Threads |-> "idle"]
    /\ loc = [t \in Threads |-> IdleLoc]
    /\ held = [t \in Threads |-> {}]
    /\ uaf = FALSE
    /\ enq = <<>>
    /\ relq = {}
    /\ ndec = 0
    /\ last = NoCall
    /\ faults = 0
    /\ early = FALSE
    /\ file_stores = [s \in Slots |-> ZeroStore]
    /\ file_service_id = 0
    /\ created = NoCreate
    /\ pool = EmptyPool
    /\ pool_last = NoRefOp
    /\ flows = NoFlows
    /\ links = NewLinks
    /\ res = NoResources

InitCommon ==
    /\ InitBase
    /\ subq = EmptySubq(MaxDepth)

\* one caller, every operation on every sid, no failure of the file system or
\* of the OS
Init ==
    /\ InitCommon
    /\ cfg = [ callers |-> {1}, conc |-> FALSE, faults |-> 0, sites |-> {},
               enq |-> MaxEnq, inputs |-> Inputs,
               retrieve |-> Sids, release |-> Sids, relinquish |-> Sids,
               timeouts |-> Timeouts ]

\* one caller; a write or a flush of enqueue may fail
InitW ==
    /\ InitCommon
    /\ cfg = [ callers |-> {1}, conc |-> FALSE, faults |-> MaxFaults,
               sites |-> {"write", "flush"},
               enq |-> MaxEnq, inputs |-> Inputs,
               retrieve |-> Sids, release |-> {1}, relinquish |-> {1},
               timeouts |-> {BP_CHECK, 1} ]

\* one caller; an open, a seek, a read or a wait of dequeue and retrieve, or
\* the removal of a bucket file, may fail
InitR ==
    /\ InitCommon
    /\ cfg = [ callers |-> {1}, conc |-> FALSE, faults |-> MaxFaults,
               sites |-> {"open", "seek", "replay", "read", "wait", "remove"},
               enq |-> MaxEnq, inputs |-> Inputs,
               retrieve |-> {1}, release |-> {1}, relinquish |-> Sids,
               timeouts |-> {BP_CHECK, 1} ]

\* two callers whose calls overlap; nothing fails; retrieve is called for the
\* sid after the record's, which shares its cache slot
InitC ==
    /\ InitCommon
    /\ cfg = [ callers |-> Threads, conc |-> TRUE, faults |-> 0, sites |-> {},
               enq |-> MaxEnqC, inputs |-> Inputs,
               retrieve |-> {2}, release |-> {1, 2}, relinquish |-> {1},
               timeouts |-> {1} ]

\* one caller, nothing fails; the records reach into the second bucket and
\* the sid of every record may be relinquished
InitB ==
    /\ InitCommon
    /\ cfg = [ callers |-> {1}, conc |-> FALSE, faults |-> 0, sites |-> {},
               enq |-> MaxEnqB, inputs |-> Inputs,
               retrieve |-> {1}, release |-> {1},
               relinquish |-> 1 .. MaxEnqB,
               timeouts |-> {BP_CHECK, 1} ]

\* one caller; a seek, a read or a write of enqueue, dequeue and retrieve may
\* fail, and retrieve is called for both sids of the first bucket, so that it
\* seeks back in its file
InitE ==
    /\ InitCommon
    /\ cfg = [ callers |-> {1}, conc |-> FALSE, faults |-> MaxFaults,
               sites |-> {"seek", "replay", "read", "write"},
               enq |-> MaxEnq, inputs |-> Inputs,
               retrieve |-> {1, 2}, release |-> {2}, relinquish |-> {1},
               timeouts |-> {BP_CHECK, 1} ]

(* ------------------------- calls and returns --------------------------- *)

\* a thread may begin a call
MayCall(t) ==
    /\ t \in cfg.callers
    /\ pc[t] = "idle"
    /\ cfg.conc \/ \A u \in Threads : pc[u] = "idle"

\* the failures that may be injected into a call, given the sites it has
\* (plain: sites that fail in one way; counted: sites that fail after k cells
\* or at iteration k)
FaultChoices(plain, counted, maxk) ==
    {NoFault} \cup
    (IF faults < cfg.faults
     THEN {[site |-> s, k |-> 0] : s \in plain \cap cfg.sites}
          \cup {[site |-> s, k |-> k] : s \in counted \cap cfg.sites, k \in 0 .. maxk}
     ELSE {})

\* the record of a call that returns; again: the call before it was the same
\* operation on the same sid and returned BP_SUCCESS; deq: the sids stamped on
\* the objects that successful dequeues have handed out so far
Returned(op, sid, status, why, obj, val) ==
    [ tick |-> 1 - last.tick, op |-> op, sid |-> sid, status |-> status,
      why |-> why, obj |-> obj, val |-> val,
      again |-> (last.op = op /\ last.sid = sid /\ last.status = BP_SUCCESS),
      deq |-> last.deq ]

\* bplib_os_signal: every thread waiting on the lock is woken
Signal(l, pcs) ==
    [u \in Threads |->
        IF pcs[u] \in {"deq_wait_empty", "deq_wait_cache", "ret_wait_cache"}
        THEN [l[u] EXCEPT !.signaled = TRUE] ELSE l[u]]

\* malloc: the lowest address not in use
Malloc(m) ==
    CHOOSE p \in 1 .. (Cardinality(DOMAIN m) + 1) :
        p \notin DOMAIN m /\ \A q \in 1 .. (p - 1) : q \in DOMAIN m

Free(m, p) == [q \in DOMAIN m \ {p} |-> m[q]]

(* ------------------------------ enqueue -------------------------------- *)

\* open_dat_file(..., read_only = false): fopen "ab" creates a missing file
OpenAppend(d, i, file_id) ==
    IF file_id \in DOMAIN d
    THEN [dat |-> d, ino |-> i, fd |-> [ino |-> d[file_id], pos |-> 0]]
    ELSE [dat |-> d @@ (file_id :> (Len(i) + 1)),
          ino |-> Append(i, <<>>),
          fd  |-> [ino |-> Len(i) + 1, pos |-> 0]]

\* EnqueueFinish that keeps the write file open when the bucket is full
EnqueueFinish_NeverCloses(s, d, i, fd, rec, n, failed) ==
    LET i2 == [i EXCEPT ![fd.ino] = @ \o Prefix(rec, n)] IN
    IF failed
    THEN [ fs |-> [s EXCEPT !.write_error = TRUE, !.write_fd = NullFd],
           dat |-> d, ino |-> i2, status |-> BP_FAILEDSTORE, why |-> "write" ]
    ELSE [ fs |-> [s EXCEPT !.write_fd = fd,
                            !.write_error = FALSE,
                            !.write_data_id = @ + 1],
           dat |-> d, ino |-> i2, status |-> BP_SUCCESS, why |-> "none" ]

\* EnqueueFinish with the failure branch forgetting to close the file
EnqueueFinish_KeepsFdOpen(s, d, i, fd, rec, n, failed) ==
    LET i2 == [i EXCEPT ![fd.ino] = @ \o Prefix(rec, n)] IN
    IF failed
    THEN [ fs |-> [s EXCEPT !.write_error = TRUE, !.write_fd = fd],
           dat |-> d, ino |-> i2, status |-> BP_FAILEDSTORE, why |-> "write" ]
    ELSE [ fs |-> [s EXCEPT !.write_fd = IF s.write_data_id % FILE_DATA_COUNT = 0
                                         THEN NullFd ELSE fd,
                            !.write_error = FALSE,
                            !.write_data_id = @ + 1],
           dat |-> d, ino |-> i2, status |-> BP_SUCCESS, why |-> "none" ]

\* file.c:442-475, the outcome of the four fwrite calls and the flush:
\* n cells of rec reached the file, and the call failed or not
EnqueueFinish(s, d, i, fd, rec, n, failed) ==
    LET i2 == [i EXCEPT ![fd.ino] = @ \o Prefix(rec, n)] IN
    IF failed
    THEN [ fs |-> [s EXCEPT !.write_error = TRUE, !.write_fd = NullFd],
           dat |-> d, ino |-> i2, status |-> BP_FAILEDSTORE, why |-> "write" ]
    ELSE [ fs |-> [s EXCEPT !.write_fd = IF s.write_data_id % FILE_DATA_COUNT = 0
                                         THEN NullFd ELSE fd,
                            !.write_error = FALSE,
                            !.write_data_id = @ + 1],
           dat |-> d, ino |-> i2, status |-> BP_SUCCESS, why |-> "none" ]

\* file.c:412-440: the writes always land at the end of the file (append mode)
EnqueueWriteRecord(s, d, i, fd, rec, flt) ==
    IF flt.site = "write"
    THEN EnqueueFinish(s, d, i, fd, rec, Min(flt.k, Len(rec) - 1), TRUE) @@ [used |-> TRUE]
    ELSE IF flt.site = "flush"
    THEN EnqueueFinish(s, d, i, fd, rec, Len(rec), TRUE) @@ [used |-> TRUE]
    ELSE EnqueueFinish(s, d, i, fd, rec, Len(rec), FALSE) @@ [used |-> FALSE]

\* file.c:376-440.  readable: whether fread on the stream opened "ab" delivers
\* data (the C library leaves reading an output stream undefined)
EnqueueOutcome(s, d, i, rec, flt, readable) ==
    LET data_id     == GET_DATAID(s.write_data_id)
        file_id     == GET_FILEID(data_id)
        data_offset == GET_DATAOFFSET(data_id)
    IN
    IF s.write_fd # NullFd
    THEN EnqueueWriteRecord(s, d, i, s.write_fd, rec, flt)
    ELSE IF flt.site = "open"
    THEN [ fs |-> s, dat |-> d, ino |-> i, status |-> BP_FAILEDSTORE,
           why |-> "open", used |-> TRUE ]
    ELSE
        LET o  == OpenAppend(d, i, file_id)
            s1 == [s EXCEPT !.write_fd = o.fd]
            sk == SkipRecords(o.ino[o.fd.ino], 0, data_offset,
                              IF flt.site = "replay" THEN flt.k ELSE -1)
        IN
        IF ~s.write_error
        THEN EnqueueWriteRecord(s1, o.dat, o.ino, o.fd, rec, flt)
        ELSE IF flt.site = "seek"
        THEN [ fs |-> s1, dat |-> o.dat, ino |-> o.ino, status |-> BP_FAILEDSTORE,
               why |-> "seek", used |-> TRUE ]
        ELSE IF data_offset > 0 /\ ~readable
        THEN [ fs |-> s1, dat |-> o.dat, ino |-> o.ino, status |-> BP_FAILEDSTORE,
               why |-> "replay", used |-> FALSE ]
        ELSE IF ~sk.ok
        THEN [ fs |-> [s1 EXCEPT !.write_fd.pos = sk.pos], dat |-> o.dat, ino |-> o.ino,
               status |-> BP_FAILEDSTORE, why |-> "replay", used |-> sk.hit ]
        ELSE EnqueueWriteRecord([s1 EXCEPT !.write_fd.pos = sk.pos], o.dat, o.ino,
                                [o.fd EXCEPT !.pos = sk.pos], rec, flt)

\* bplib_store_file_enqueue up to the load of data_count for data_count++;
\* the function takes no lock
Enqueue(t) ==
    /\ MayCall(t)
    /\ Len(enq) < cfg.enq
    /\ \E in \in cfg.inputs[Len(enq) + 1], readable \in BOOLEAN,
          flt \in FaultChoices({"open", "seek", "flush"}, {"replay", "write"}, MaxRecord - 1) :
        LET rec == Record(in[1], in[2])
            r   == EnqueueOutcome(fs, dat, ino, rec, flt, readable)
        IN
        /\ fs' = r.fs
        /\ dat' = r.dat
        /\ ino' = r.ino
        /\ faults' = IF r.used THEN faults + 1 ELSE faults
        /\ IF r.status = BP_SUCCESS
           THEN /\ pc' = [pc EXCEPT ![t] = "enq_count"]
                /\ loc' = [loc EXCEPT ![t].tmp = r.fs.data_count]
                /\ enq' = Append(enq, in[1] \o in[2])
                /\ last' = last
           ELSE /\ last' = Returned("enqueue", 0, r.status, r.why, NULL, 0)
                /\ UNCHANGED << pc, loc, enq >>
    /\ uaf' = FALSE
    /\ UNCHANGED << tbl, mem, lock, held, relq, ndec, cfg, early, file_stores, file_service_id, created, pool, pool_last, subq, flows, links, res >>

\* the store of data_count++, bplib_os_signal and the return (file.c:470-474)
EnqueueCount(t) ==
    /\ pc[t] = "enq_count"
    /\ fs' = [fs EXCEPT !.data_count = loc[t].tmp + 1]
    /\ pc' = [pc EXCEPT ![t] = "idle"]
    /\ loc' = Signal([loc EXCEPT ![t] = IdleLoc], pc)
    /\ last' = Returned("enqueue", 0, BP_SUCCESS, "none", NULL, 0)
    /\ uaf' = FALSE
    /\ UNCHANGED << dat, ino, tbl, mem, lock, held, enq, relq, ndec, faults, cfg, early, file_stores, file_service_id, created, pool, pool_last, subq, flows, links, res >>

(* ------------------------- common call endings ------------------------- *)

\* what a call, or a part of it, comes to: the store and heap it leaves, and
\* either its return ("ret") or its wait on the lock for a cache slot ("wait")
Outcome(s, m, kind, status, why, obj, used) ==
    [ fs |-> s, mem |-> m, kind |-> kind, status |-> status, why |-> why,
      obj |-> obj, used |-> used, signal |-> FALSE ]

\* bplib_os_waiton with BP_CHECK returns BP_TIMEOUT at once
WaitReturnsAtOnce(timeout) == timeout = BP_CHECK

\* the objects the threads hold, once the heap is m: a freed object is no
\* longer tracked
StillHeld(h, m) == [u \in Threads |-> {x \in h[u] : x.ptr \in DOMAIN m}]

\* the call of thread t, which leaves the heap as m, has freed an object that
\* another thread holds
FreedWhileHeld(t, m) ==
    \E u \in Threads \ {t} : \E x \in held[u] : x.ptr \notin DOMAIN m

\* Conclude without bplib_os_unlock on the returns of BP_FAILEDSTORE
Conclude_KeepsLockOnFailure(t, op, sid, timeout, data_id, waitpc, r) ==
    /\ fs' = r.fs
    /\ mem' = r.mem
    /\ faults' = IF r.used THEN faults + 1 ELSE faults
    /\ lock' = IF r.kind = "ret" /\ r.status = BP_FAILEDSTORE THEN t ELSE 0
    /\ IF r.kind = "wait"
       THEN /\ pc' = [pc EXCEPT ![t] = waitpc]
            /\ loc' = [loc EXCEPT ![t] =
                        [ sid |-> sid, timeout |-> timeout, object_ptr |-> r.obj,
                          data_id |-> data_id, tmp |-> 0, signaled |-> FALSE,
                          pre |-> IF pc[t] = "idle" THEN <<fs>> ELSE loc[t].pre ]]
            /\ UNCHANGED last
            /\ held' = StillHeld(held, r.mem)
            /\ uaf' = FreedWhileHeld(t, r.mem)
       ELSE /\ pc' = [pc EXCEPT ![t] = "idle"]
            /\ loc' = IF r.signal
                      THEN Signal([loc EXCEPT ![t] = IdleLoc], pc)
                      ELSE [loc EXCEPT ![t] = IdleLoc]
            /\ last' = [Returned(op, sid, r.status, r.why, r.obj, 0)
                          EXCEPT !.deq =
                            IF op = "dequeue" /\ r.status = BP_SUCCESS
                            THEN @ \cup {r.mem[r.obj].sid} ELSE @]
            /\ uaf' = FreedWhileHeld(t, r.mem)
            /\ held' = IF r.status = BP_SUCCESS /\ op \in {"dequeue", "retrieve"}
                       THEN [StillHeld(held, r.mem) EXCEPT ![t] = @ \cup
                                {[ptr |-> r.obj,
                                  sid |-> IF op = "retrieve" THEN sid
                                          ELSE r.mem[r.obj].sid]}]
                       ELSE IF op = "release"
                       THEN [held EXCEPT ![t] = {h \in @ : h.sid # sid}]
                       ELSE StillHeld(held, r.mem)

\* the part of a call that ran under the lock ends with outcome r: the call
\* returns, or the thread sleeps in bplib_os_waiton (which gives up the lock)
Conclude(t, op, sid, timeout, data_id, waitpc, r) ==
    /\ fs' = r.fs
    /\ mem' = r.mem
    /\ faults' = IF r.used THEN faults + 1 ELSE faults
    /\ lock' = 0
    /\ IF r.kind = "wait"
       THEN /\ pc' = [pc EXCEPT ![t] = waitpc]
            /\ loc' = [loc EXCEPT ![t] =
                        [ sid |-> sid, timeout |-> timeout, object_ptr |-> r.obj,
                          data_id |-> data_id, tmp |-> 0, signaled |-> FALSE,
                          pre |-> IF pc[t] = "idle" THEN <<fs>> ELSE loc[t].pre ]]
            /\ UNCHANGED last
            /\ held' = StillHeld(held, r.mem)
            /\ uaf' = FreedWhileHeld(t, r.mem)
       ELSE /\ pc' = [pc EXCEPT ![t] = "idle"]
            /\ loc' = IF r.signal
                      THEN Signal([loc EXCEPT ![t] = IdleLoc], pc)
                      ELSE [loc EXCEPT ![t] = IdleLoc]
            /\ last' = [Returned(op, sid, r.status, r.why, r.obj, 0)
                          EXCEPT !.deq =
                            IF op = "dequeue" /\ r.status = BP_SUCCESS
                            THEN @ \cup {r.mem[r.obj].sid} ELSE @]
            /\ uaf' = FreedWhileHeld(t, r.mem)
            /\ held' = IF r.status = BP_SUCCESS /\ op \in {"dequeue", "retrieve"}
                       THEN [StillHeld(held, r.mem) EXCEPT ![t] = @ \cup
                                {[ptr |-> r.obj,
                                  sid |-> IF op = "retrieve" THEN sid
                                          ELSE r.mem[r.obj].sid]}]
                       ELSE IF op = "release"
                       THEN [held EXCEPT ![t] = {h \in @ : h.sid # sid}]
                       ELSE StillHeld(held, r.mem)

\* how a sleep in bplib_os_waiton may end for thread t
WakeChoices(t) ==
    (IF loc[t].signaled THEN {"signal"} ELSE {})
    \cup (IF loc[t].timeout # BP_PEND THEN {"timeout"} ELSE {})
    \cup (IF faults < cfg.faults /\ "wait" \in cfg.sites THEN {"error", "spurious"} ELSE {})

(* ------------------------------ dequeue -------------------------------- *)

\* open_dat_file(..., read_only = true)
OpenRead(d, file_id) ==
    IF file_id \in DOMAIN d THEN [ino |-> d[file_id], pos |-> 0] ELSE NullFd

\* fread of the size word, malloc, fread of the object (file.c:567-580, 764-777)
ReadObject(content, pos, failed) ==
    IF failed \/ pos + SizeWord > Len(content)
    THEN [ok |-> FALSE, raw |-> <<>>, pos |-> pos]
    ELSE IF pos + SizeWord + content[pos + 1] > Len(content)
    THEN [ok |-> FALSE, raw |-> <<>>, pos |-> pos]
    ELSE [ok |-> TRUE,
          raw |-> SubSeq(content, pos + SizeWord + 1, pos + SizeWord + content[pos + 1]),
          pos |-> pos + SizeWord + content[pos + 1]]

\* file.c:623-649: the object replaces the slot's occupant
DequeueInstall(s, m, p, data_id) ==
    LET cache_index == data_id % s.cache_size
        old         == s.data_cache[cache_index].mem_ptr
        m2          == IF old # NULL THEN Free(m, old) ELSE m
        s2          == [s EXCEPT
                          !.data_cache[cache_index] =
                              [mem_ptr |-> p, mem_locked |-> FILE_MEM_LOCKED,
                               mem_data_id |-> data_id],
                          !.read_fd = IF s.read_data_id % FILE_DATA_COUNT = 0
                                      THEN NullFd ELSE @,
                          !.read_error = FALSE,
                          !.read_data_id = @ + 1]
    IN Outcome(s2, m2, "ret", BP_SUCCESS, "none", p, FALSE)

\* a dequeue that takes the cache slot after the wait without looking at
\* mem_locked again
DequeueAfterWait_NoRecheck(s, m, p, data_id, wake) ==
    IF wake = "error"
    THEN Outcome(s, Free(m, p), "ret", BP_FAILEDSTORE, "wait", NULL, TRUE)
    ELSE IF wake = "timeout"
    THEN Outcome(s, Free(m, p), "ret", BP_TIMEOUT, "cache", NULL, FALSE)
    ELSE DequeueInstall(s, m, p, data_id)

\* file.c:603-621 when bplib_os_waiton has returned: wake is how it returned
DequeueAfterWait(s, m, p, data_id, wake) ==
    LET cache_index == data_id % s.cache_size IN
    IF wake = "error"
    THEN Outcome(s, Free(m, p), "ret", BP_FAILEDSTORE, "wait", NULL, TRUE)
    ELSE IF wake = "timeout" \/ s.data_cache[cache_index].mem_locked # FILE_MEM_AVAIABLE
    THEN Outcome(s, Free(m, p), "ret", BP_TIMEOUT, "cache", NULL, wake = "spurious")
    ELSE DequeueInstall(s, m, p, data_id) @@ [used |-> wake = "spurious"]

\* file.c:519-649, the call once data is known to be available; data_id is
\* the local computed at the start of the call
DequeueBody(s, d, i, m, data_id, timeout, flt) ==
    LET file_id     == GET_FILEID(data_id)
        data_offset == GET_DATAOFFSET(data_id)
        cache_index == data_id % s.cache_size
        wasnull     == s.read_fd = NullFd
        fd0         == IF ~wasnull THEN s.read_fd
                       ELSE IF flt.site = "open" THEN NullFd
                       ELSE OpenRead(d, file_id)
    IN
    IF fd0 = NullFd
    THEN Outcome(s, m, "ret", BP_FAILEDSTORE, "open", NULL, flt.site = "open")
    ELSE
        LET s1 == [s EXCEPT !.read_fd = fd0]
            sk == IF s.read_error
                  THEN SkipRecords(i[fd0.ino], 0, data_offset,
                                   IF flt.site = "replay" THEN flt.k ELSE -1)
                  ELSE [ok |-> TRUE, pos |-> fd0.pos, hit |-> FALSE]
            rd == ReadObject(i[fd0.ino], sk.pos, flt.site = "read")
            p  == Malloc(m)
            m1 == m @@ (p :> [sid |-> s.read_data_id, raw |-> rd.raw])
            s2 == [s1 EXCEPT !.read_fd.pos = rd.pos]
        IN
        IF s.read_error /\ flt.site = "seek"
        THEN Outcome(s1, m, "ret", BP_FAILEDSTORE, "seek", NULL, TRUE)
        ELSE IF ~sk.ok
        THEN Outcome([s1 EXCEPT !.read_fd.pos = sk.pos], m, "ret", BP_FAILEDSTORE,
                     "replay", NULL, sk.hit)
        ELSE IF ~rd.ok
        THEN Outcome([s1 EXCEPT !.read_error = TRUE, !.read_fd = NullFd], m, "ret",
                     BP_FAILEDSTORE, "read", NULL, flt.site = "read")
        ELSE IF s2.data_cache[cache_index].mem_locked # FILE_MEM_AVAIABLE
        THEN IF WaitReturnsAtOnce(timeout)
             THEN DequeueAfterWait(s2, m1, p, data_id,
                                   IF flt.site = "wait" THEN "error" ELSE "timeout")
             ELSE Outcome(s2, m1, "wait", "none", "none", p, FALSE)
        ELSE DequeueInstall(s2, m1, p, data_id)

DequeueFaults ==
    FaultChoices({"open", "seek", "read", "wait"}, {"replay"}, FILE_DATA_COUNT - 2)

\* bplib_store_file_dequeue from bplib_os_lock on (file.c:487-649)
Dequeue(t) ==
    /\ MayCall(t)
    /\ lock = 0
    /\ \E timeout \in cfg.timeouts, flt \in DequeueFaults :
        LET data_id == GET_DATAID(fs.read_data_id) IN
        IF fs.read_data_id = fs.write_data_id
        THEN IF WaitReturnsAtOnce(timeout)
             THEN /\ Conclude(t, "dequeue", 0, timeout, data_id, "none",
                        IF flt.site = "wait"
                        THEN Outcome(fs, mem, "ret", BP_FAILEDSTORE, "wait", NULL, TRUE)
                        ELSE Outcome(fs, mem, "ret", BP_TIMEOUT, "empty", NULL, FALSE))
                  /\ UNCHANGED << dat, ino, tbl, enq, relq, ndec, cfg, early, file_stores, file_service_id, created, pool, pool_last, subq, flows, links, res >>
             ELSE /\ pc' = [pc EXCEPT ![t] = "deq_empty"]
                  /\ loc' = [loc EXCEPT ![t] =
                              [IdleLoc EXCEPT !.timeout = timeout, !.data_id = data_id,
                                              !.pre = <<fs>>]]
                  /\ lock' = t
                  /\ uaf' = FALSE
                  /\ UNCHANGED << fs, dat, ino, tbl, mem, held, enq, relq, ndec, last,
                                  faults, cfg, early, file_stores, file_service_id, created, pool, pool_last, subq, flows, links, res >>
        ELSE /\ Conclude(t, "dequeue", 0, timeout, data_id, "deq_wait_cache",
                         DequeueBody(fs, dat, ino, mem, data_id, timeout, flt))
             /\ UNCHANGED << dat, ino, tbl, enq, relq, ndec, cfg, early, file_stores, file_service_id, created, pool, pool_last, subq, flows, links, res >>

\* the queue was empty: the thread enters bplib_os_waiton, which gives up the
\* lock and sleeps (file.c:505)
DequeueWaitEmpty(t) ==
    /\ pc[t] = "deq_empty"
    /\ pc' = [pc EXCEPT ![t] = "deq_wait_empty"]
    /\ loc' = [loc EXCEPT ![t].signaled = FALSE]
    /\ lock' = 0
    /\ uaf' = FALSE
    /\ UNCHANGED << fs, dat, ino, tbl, mem, held, enq, relq, ndec, last, faults, cfg, early, file_stores, file_service_id, created, pool, pool_last, subq, flows, links, res >>

\* bplib_os_waiton on the empty queue returns (file.c:506-517) and the call
\* goes on
DequeueWakeEmpty(t) ==
    /\ pc[t] = "deq_wait_empty"
    /\ lock = 0
    /\ \E wake \in WakeChoices(t) :
        /\ Conclude(t, "dequeue", 0, loc[t].timeout, loc[t].data_id, "deq_wait_cache",
              IF wake = "error"
              THEN Outcome(fs, mem, "ret", BP_FAILEDSTORE, "wait", NULL, TRUE)
              ELSE IF wake = "timeout" \/ fs.read_data_id = fs.write_data_id
              THEN Outcome(fs, mem, "ret", BP_TIMEOUT, "empty", NULL, wake = "spurious")
              ELSE LET r == DequeueBody(fs, dat, ino, mem, loc[t].data_id,
                                        loc[t].timeout, NoFault)
                   IN [r EXCEPT !.used = wake = "spurious"])
    /\ UNCHANGED << dat, ino, tbl, enq, relq, ndec, cfg, early, file_stores, file_service_id, created, pool, pool_last, subq, flows, links, res >>

\* bplib_os_waiton on the locked cache slot returns (file.c:607-649)
DequeueWakeCache(t) ==
    /\ pc[t] = "deq_wait_cache"
    /\ lock = 0
    /\ \E wake \in WakeChoices(t) :
        Conclude(t, "dequeue", 0, loc[t].timeout, loc[t].data_id, "deq_wait_cache",
                 DequeueAfterWait(fs, mem, loc[t].object_ptr, loc[t].data_id, wake))
    /\ UNCHANGED << dat, ino, tbl, enq, relq, ndec, cfg, early, file_stores, file_service_id, created, pool, pool_last, subq, flows, links, res >>

(* ------------------------------ retrieve ------------------------------- *)

\* file.c:816-828: the object replaces the slot's occupant
RetrieveInstall(s, m, p, data_id) ==
    LET cache_index == data_id % s.cache_size
        old         == s.data_cache[cache_index].mem_ptr
        m2          == IF old # NULL THEN Free(m, old) ELSE m
        s2          == [s EXCEPT
                          !.data_cache[cache_index] =
                              [mem_ptr |-> p, mem_locked |-> FILE_MEM_LOCKED,
                               mem_data_id |-> data_id]]
    IN Outcome(s2, m2, "ret", BP_SUCCESS, "none", p, FALSE)

\* file.c:796-814 when bplib_os_waiton has returned: wake is how it returned
RetrieveAfterWait(s, m, p, data_id, wake) ==
    LET cache_index == data_id % s.cache_size IN
    IF wake = "error"
    THEN Outcome(s, Free(m, p), "ret", BP_FAILEDSTORE, "wait", NULL, TRUE)
    ELSE IF wake = "timeout" \/ s.data_cache[cache_index].mem_locked # FILE_MEM_AVAIABLE
    THEN Outcome(s, Free(m, p), "ret", BP_TIMEOUT, "cache", NULL, wake = "spurious")
    ELSE RetrieveInstall(s, m, p, data_id) @@ [used |-> wake = "spurious"]

\* a retrieve that never looks into the cache
CacheHit_Ignored(s, data_id) == FALSE

\* file.c:687-698: the slot of data_id holds an object of exactly that data_id
CacheHit(s, data_id) ==
    LET slot == s.data_cache[data_id % s.cache_size] IN
    slot.mem_ptr # NULL /\ slot.mem_data_id = data_id

\* file.c:679-828
RetrieveBody(s, d, i, m, sid, timeout, flt) ==
    LET data_id          == GET_DATAID(sid)
        file_id          == GET_FILEID(data_id)
        data_offset      == GET_DATAOFFSET(data_id)
        prev_data_id     == GET_DATAID(s.retrieve_data_id)
        prev_file_id     == GET_FILEID(prev_data_id)
        prev_data_offset == GET_DATAOFFSET(prev_data_id)
        cache_index      == data_id % s.cache_size
        \* file.c:700-708
        fdA     == IF file_id # prev_file_id THEN NullFd ELSE s.retrieve_fd
        wasnull == fdA = NullFd
        \* file.c:710-720
        fd0     == IF ~wasnull THEN fdA
                   ELSE IF flt.site = "open" THEN NullFd
                   ELSE OpenRead(d, file_id)
        \* file.c:721-736
        back    == ~wasnull /\ data_offset - prev_data_offset < 0
        offset_delta == IF wasnull THEN 0
                        ELSE IF back THEN data_offset
                        ELSE data_offset - prev_data_offset
        pos0    == IF back THEN 0 ELSE fd0.pos
    IN
    IF CacheHit(s, data_id)
    THEN Outcome(s, m, "ret", BP_SUCCESS, "none", s.data_cache[cache_index].mem_ptr, FALSE)
    ELSE IF fd0 = NullFd
    THEN Outcome([s EXCEPT !.retrieve_fd = NullFd], m, "ret", BP_FAILEDSTORE, "open",
                 NULL, flt.site = "open")
    ELSE IF back /\ flt.site = "seek"
    THEN Outcome(s, m, "ret", BP_FAILEDSTORE, "seek", NULL, TRUE)
    ELSE
        LET sk == SkipRecords(i[fd0.ino], pos0, offset_delta,
                              IF flt.site = "replay" THEN flt.k ELSE -1)
            rd == ReadObject(i[fd0.ino], sk.pos, flt.site = "read")
            p  == Malloc(m)
            m1 == m @@ (p :> [sid |-> sid, raw |-> rd.raw])
            s2 == [s EXCEPT !.retrieve_fd = [fd0 EXCEPT !.pos = rd.pos],
                            !.retrieve_data_id = sid]
        IN
        IF ~sk.ok
        THEN Outcome([s EXCEPT !.retrieve_fd = [fd0 EXCEPT !.pos = sk.pos]], m, "ret",
                     BP_FAILEDSTORE, "replay", NULL, sk.hit)
        ELSE IF ~rd.ok
        THEN Outcome([s EXCEPT !.retrieve_fd = NullFd], m, "ret", BP_FAILEDSTORE, "read",
                     NULL, flt.site = "read")
        ELSE IF s2.data_cache[cache_index].mem_locked # FILE_MEM_AVAIABLE
        THEN IF WaitReturnsAtOnce(timeout)
             THEN RetrieveAfterWait(s2, m1, p, data_id,
                                    IF flt.site = "wait" THEN "error" ELSE "timeout")
             ELSE Outcome(s2, m1, "wait", "none", "none", p, FALSE)
        ELSE RetrieveInstall(s2, m1, p, data_id)

RetrieveFaults ==
    FaultChoices({"open", "seek", "read", "wait"}, {"replay"}, FILE_DATA_COUNT - 2)

\* bplib_store_file_retrieve from bplib_os_lock on
Retrieve(t) ==
    /\ MayCall(t)
    /\ lock = 0
    /\ \E sid \in cfg.retrieve, timeout \in cfg.timeouts, flt \in RetrieveFaults :
        Conclude(t, "retrieve", sid, timeout, GET_DATAID(sid), "ret_wait_cache",
                 RetrieveBody(fs, dat, ino, mem, sid, timeout, flt))
    /\ UNCHANGED << dat, ino, tbl, enq, relq, ndec, cfg, early, file_stores, file_service_id, created, pool, pool_last, subq, flows, links, res >>

\* bplib_os_waiton on the locked cache slot returns (file.c:800-828)
RetrieveWakeCache(t) ==
    /\ pc[t] = "ret_wait_cache"
    /\ lock = 0
    /\ \E wake \in WakeChoices(t) :
        Conclude(t, "retrieve", loc[t].sid, loc[t].timeout, loc[t].data_id,
                 "ret_wait_cache",
                 RetrieveAfterWait(fs, mem, loc[t].object_ptr, loc[t].data_id, wake))
    /\ UNCHANGED << dat, ino, tbl, enq, relq, ndec, cfg, early, file_stores, file_service_id, created, pool, pool_last, subq, flows, links, res >>

(* ------------------------------- release ------------------------------- *)

\* ReleaseBody with a check of the slot's lock flag added: releasing a slot
\* that is not locked is refused
ReleaseBody_LockedOnly(s, m, sid) ==
    LET data_id     == GET_DATAID(sid)
        cache_index == data_id % s.cache_size
    IN
    IF s.data_cache[cache_index].mem_ptr = NULL
       \/ s.data_cache[cache_index].mem_data_id # data_id
       \/ s.data_cache[cache_index].mem_locked = FILE_MEM_AVAIABLE
    THEN Outcome(s, m, "ret", BP_FAILEDSTORE, "invalid", NULL, FALSE)
    ELSE [ Outcome([s EXCEPT !.data_cache[cache_index].mem_locked = FILE_MEM_AVAIABLE],
                   m, "ret", BP_SUCCESS, "none", NULL, FALSE)
           EXCEPT !.signal = TRUE ]

\* a release that frees the object at once and empties the slot
ReleaseBody_FreesEntry(s, m, sid) ==
    LET data_id     == GET_DATAID(sid)
        cache_index == data_id % s.cache_size
    IN
    IF s.data_cache[cache_index].mem_ptr = NULL
       \/ s.data_cache[cache_index].mem_data_id # data_id
    THEN Outcome(s, m, "ret", BP_FAILEDSTORE, "invalid", NULL, FALSE)
    ELSE [ Outcome([s EXCEPT !.data_cache[cache_index] = EmptySlot],
                   Free(m, s.data_cache[cache_index].mem_ptr),
                   "ret", BP_SUCCESS, "none", NULL, FALSE)
           EXCEPT !.signal = TRUE ]

\* file.c:848-863
ReleaseBody(s, m, sid) ==
    LET data_id     == GET_DATAID(sid)
        cache_index == data_id % s.cache_size
    IN
    IF s.data_cache[cache_index].mem_ptr = NULL
       \/ s.data_cache[cache_index].mem_data_id # data_id
    THEN Outcome(s, m, "ret", BP_FAILEDSTORE, "invalid", NULL, FALSE)
    ELSE [ Outcome([s EXCEPT !.data_cache[cache_index].mem_locked = FILE_MEM_AVAIABLE],
                   m, "ret", BP_SUCCESS, "none", NULL, FALSE)
           EXCEPT !.signal = TRUE ]

\* bplib_store_file_release
Release(t) ==
    /\ MayCall(t)
    /\ lock = 0
    /\ \E sid \in cfg.release :
        Conclude(t, "release", sid, 0, 0, "none", ReleaseBody(fs, mem, sid))
    /\ UNCHANGED << dat, ino, tbl, enq, relq, ndec, cfg, early, file_stores, file_service_id, created, pool, pool_last, subq, flows, links, res >>

(* ------------------------------ getcount ------------------------------- *)

\* bplib_store_file_getcount: reads data_count without the lock
Getcount(t) ==
    /\ MayCall(t)
    /\ last' = [Returned("getcount", 0, BP_SUCCESS, "none", NULL, 0)
                  EXCEPT !.val = fs.data_count]
    /\ uaf' = FALSE
    /\ UNCHANGED << fs, dat, ino, tbl, mem, lock, pc, loc, held, enq, relq, ndec,
                    faults, cfg, early, file_stores, file_service_id, created, pool, pool_last, subq, flows, links, res >>

(* ------------------------------ relinquish ----------------------------- *)

\* the cells fwrite puts into a .tbl file for a free_table_t
TableCells(tab) ==
    [j \in 1 .. FILE_DATA_COUNT |-> tab.freed[j - 1]] \o << tab.free_cnt >>

\* a load that starts every bucket from an empty table
TableRead_Zeroes(tab, cells) == ZeroTable

\* fread of cells into a free_table_t: a short file overwrites its beginning only
TableRead(tab, cells) ==
    [ freed    |-> [j \in 0 .. (FILE_DATA_COUNT - 1) |->
                       IF j + 1 <= Len(cells) THEN cells[j + 1] ELSE tab.freed[j]],
      free_cnt |-> IF Len(cells) = FILE_DATA_COUNT + 1
                   THEN cells[FILE_DATA_COUNT + 1] ELSE tab.free_cnt ]

RemoveKey(f, k) == [x \in DOMAIN f \ {k} |-> f[x]]

RelOutcome(s, m, d, tb, status, why, used, marked) ==
    [ fs |-> s, mem |-> m, dat |-> d, tbl |-> tb, kind |-> "ret", status |-> status,
      why |-> why, obj |-> NULL, used |-> used, signal |-> FALSE, marked |-> marked ]

\* file.c:889-900: the cache entry of the sid is freed, locked or not
RelinquishClearCache(s, data_id) ==
    IF CacheHit(s, data_id)
    THEN [s EXCEPT !.data_cache[data_id % s.cache_size] =
                      [mem_ptr |-> NULL, mem_locked |-> FILE_MEM_AVAIABLE,
                       mem_data_id |-> BP_SID_VACANT]]
    ELSE s

\* RelinquishMark without the test of the freed flag
RelinquishMark_CountsAgain(s, m, d, tb, data_id, flt) ==
    LET file_id     == GET_FILEID(data_id)
        data_offset == GET_DATAOFFSET(data_id)
        s2 == [s EXCEPT !.relinquish_table.freed[data_offset] = 1,
                        !.data_count = @ - 1,
                        !.relinquish_table.free_cnt = @ + 1]
        tb2 == IF file_id \in DOMAIN tb /\ flt.site # "remove_tbl"
               THEN RemoveKey(tb, file_id) ELSE tb
    IN
    IF s2.relinquish_table.free_cnt # FILE_DATA_COUNT
    THEN RelOutcome(s2, m, d, tb, BP_SUCCESS, "none", FALSE, TRUE)
    ELSE IF file_id \notin DOMAIN d \/ flt.site = "remove"
    THEN RelOutcome(s2, m, d, tb2, BP_FAILEDSTORE, "remove",
                    flt.site \in {"remove", "remove_tbl"}, TRUE)
    ELSE RelOutcome(s2, m, RemoveKey(d, file_id), tb2, BP_SUCCESS, "none",
                    flt.site = "remove_tbl", TRUE)

\* RelinquishMark without the call of delete_tbl_file
RelinquishMark_KeepsTable(s, m, d, tb, data_id, flt) ==
    LET file_id     == GET_FILEID(data_id)
        data_offset == GET_DATAOFFSET(data_id)
        tab         == s.relinquish_table
    IN
    IF tab.freed[data_offset] # 0
    THEN RelOutcome(s, m, d, tb, BP_SUCCESS, "none", FALSE, FALSE)
    ELSE
        LET s2 == [s EXCEPT !.relinquish_table.freed[data_offset] = 1,
                            !.data_count = @ - 1,
                            !.relinquish_table.free_cnt = @ + 1]
        IN
        IF s2.relinquish_table.free_cnt # FILE_DATA_COUNT
        THEN RelOutcome(s2, m, d, tb, BP_SUCCESS, "none", FALSE, TRUE)
        ELSE IF file_id \notin DOMAIN d \/ flt.site = "remove"
        THEN RelOutcome(s2, m, d, tb, BP_FAILEDSTORE, "remove",
                        flt.site \in {"remove", "remove_tbl"}, TRUE)
        ELSE RelOutcome(s2, m, RemoveKey(d, file_id), tb, BP_SUCCESS, "none",
                        flt.site = "remove_tbl", TRUE)

\* file.c:962-986: the slot is marked freed and a bucket freed whole is deleted
RelinquishMark(s, m, d, tb, data_id, flt) ==
    LET file_id     == GET_FILEID(data_id)
        data_offset == GET_DATAOFFSET(data_id)
        tab         == s.relinquish_table
    IN
    IF tab.freed[data_offset] # 0
    THEN RelOutcome(s, m, d, tb, BP_SUCCESS, "none", FALSE, FALSE)
    ELSE
        LET s2 == [s EXCEPT !.relinquish_table.freed[data_offset] = 1,
                            !.data_count = @ - 1,
                            !.relinquish_table.free_cnt = @ + 1]
            \* delete_tbl_file: its status is not looked at
            tb2 == IF file_id \in DOMAIN tb /\ flt.site # "remove_tbl"
                   THEN RemoveKey(tb, file_id) ELSE tb
        IN
        IF s2.relinquish_table.free_cnt # FILE_DATA_COUNT
        THEN RelOutcome(s2, m, d, tb, BP_SUCCESS, "none", FALSE, TRUE)
        ELSE IF file_id \notin DOMAIN d \/ flt.site = "remove"
        THEN RelOutcome(s2, m, d, tb2, BP_FAILEDSTORE, "remove",
                        flt.site \in {"remove", "remove_tbl"}, TRUE)
        ELSE RelOutcome(s2, m, RemoveKey(d, file_id), tb2, BP_SUCCESS, "none",
                        flt.site = "remove_tbl", TRUE)

\* file.c:882-986
RelinquishBody(s, m, d, tb, sid, flt) ==
    LET data_id      == GET_DATAID(sid)
        file_id      == GET_FILEID(data_id)
        prev_data_id == GET_DATAID(s.relinquish_data_id)
        prev_file_id == GET_FILEID(prev_data_id)
        m1  == IF CacheHit(s, data_id)
               THEN Free(m, s.data_cache[data_id % s.cache_size].mem_ptr) ELSE m
        s1  == RelinquishClearCache(s, data_id)
        \* file.c:905-906
        s2  == [s1 EXCEPT !.relinquish_data_id = sid]
        save == s.relinquish_table.free_cnt > 0
        \* file.c:922-927: fopen "wb" truncates, fwrite, fclose
        tb1 == IF ~save THEN tb
               ELSE IF flt.site = "tbl_write"
               THEN [x \in DOMAIN tb \cup {prev_file_id} |->
                        IF x = prev_file_id
                        THEN Prefix(TableCells(s.relinquish_table),
                                    Min(flt.k, FILE_DATA_COUNT))
                        ELSE tb[x]]
               ELSE [x \in DOMAIN tb \cup {prev_file_id} |->
                        IF x = prev_file_id THEN TableCells(s.relinquish_table)
                        ELSE tb[x]]
        \* file.c:937-959
        exists == file_id \in DOMAIN tb1 /\ flt.site # "tbl_open_new"
        cells  == IF ~exists THEN <<>>
                  ELSE IF flt.site = "tbl_read"
                  THEN Prefix(tb1[file_id], Min(flt.k, Len(tb1[file_id])))
                  ELSE tb1[file_id]
        s3  == [s2 EXCEPT !.relinquish_table =
                             IF exists THEN TableRead(@, cells) ELSE ZeroTable]
    IN
    IF file_id = prev_file_id
    THEN RelinquishMark(s1, m1, d, tb, data_id, flt)
    ELSE IF save /\ flt.site = "tbl_open"
    THEN RelOutcome(s2, m1, d, tb, BP_FAILEDSTORE, "tbl_open", TRUE, FALSE)
    ELSE IF save /\ flt.site = "tbl_write"
    THEN RelOutcome(s2, m1, d, tb1, BP_FAILEDSTORE, "tbl_write", TRUE, FALSE)
    ELSE IF exists /\ Len(cells) # FILE_DATA_COUNT + 1
    THEN RelOutcome(s3, m1, d, tb1, BP_FAILEDSTORE, "tbl_read", flt.site = "tbl_read", FALSE)
    ELSE LET r == RelinquishMark(s3, m1, d, tb1, data_id, flt)
         IN [r EXCEPT !.used = @ \/ (flt.site \in {"tbl_read", "tbl_open_new"}
                                     /\ file_id \in DOMAIN tb1)]

RelinquishFaults ==
    FaultChoices({"tbl_open", "tbl_open_new", "remove", "remove_tbl"},
                 {"tbl_write", "tbl_read"},
                 FILE_DATA_COUNT)

\* bplib_store_file_relinquish
Relinquish(t) ==
    /\ MayCall(t)
    /\ lock = 0
    /\ \E sid \in cfg.relinquish, flt \in RelinquishFaults :
        LET r == RelinquishBody(fs, mem, dat, tbl, sid, flt) IN
        /\ Conclude(t, "relinquish", sid, 0, 0, "none", r)
        /\ dat' = r.dat
        /\ tbl' = r.tbl
        /\ relq' = IF r.marked THEN relq \cup {sid} ELSE relq
        /\ ndec' = IF r.marked THEN ndec + 1 ELSE ndec
        /\ early' = (early \/ sid >= fs.read_data_id)
    /\ UNCHANGED << ino, enq, cfg, file_stores, file_service_id, created, pool, pool_last, subq, flows, links, res >>

Next ==
    \E t \in Threads :
        \/ Enqueue(t)
        \/ EnqueueCount(t)
        \/ Dequeue(t)
        \/ DequeueWaitEmpty(t)
        \/ DequeueWakeEmpty(t)
        \/ DequeueWakeCache(t)
        \/ Retrieve(t)
        \/ RetrieveWakeCache(t)
        \/ Release(t)
        \/ Relinquish(t)
        \/ Getcount(t)

Spec == Init /\ [][Next]_vars

SpecW == InitW /\ [][Next]_vars

SpecE == InitE /\ [][Next]_vars

SpecR == InitR /\ [][Next]_vars

SpecC == InitC /\ [][Next]_vars

SpecB == InitB /\ [][Next]_vars

\* one caller; one record, a sid of the first and a sid of the second bucket
\* may be relinquished, and the save of the previous relinquish table
\* or the load of the new one may fail once
InitK ==
    /\ InitCommon
    /\ cfg = [ callers |-> {1}, conc |-> FALSE, faults |-> MaxFaults,
               sites |-> {"tbl_open", "tbl_write", "tbl_read"},
               enq |-> MaxEnqC, inputs |-> Inputs,
               retrieve |-> {2}, release |-> {1},
               relinquish |-> {1, MaxEnqB},
               timeouts |-> {1} ]

SpecK == InitK /\ [][Next]_vars

\* two callers whose calls overlap, every wait without a time limit; nothing
\* fails
InitL ==
    /\ InitCommon
    /\ cfg = [ callers |-> Threads, conc |-> TRUE, faults |-> 0, sites |-> {},
               enq |-> MaxEnqC, inputs |-> Inputs,
               retrieve |-> {2}, release |-> {1}, relinquish |-> {1},
               timeouts |-> {BP_PEND} ]

\* the next step of the call thread t is in: a thread that has entered a call
\* and can run goes on running
Running(t) ==
    \/ EnqueueCount(t)
    \/ DequeueWaitEmpty(t)
    \/ DequeueWakeEmpty(t)
    \/ DequeueWakeCache(t)
    \/ RetrieveWakeCache(t)

\* every call in progress that can take its next step takes it in the end;
\* nothing obliges a caller to start a call
SpecL == InitL /\ [][Next]_vars /\ \A t \in Threads : WF_vars(Running(t))

(* --------------------------- the memory pool ---------------------------- *)

\* the block goes to the recycled list
RecycleBlock(p, b) == [p EXCEPT !.recycled = @ \cup {b}]

\* a release that recycles the target while references to it are left
DropReference_RecyclesEarly(p, b) ==
    RecycleBlock([p EXCEPT !.refcount[b] = @ - 1], b)

\* one reference to b is dropped: the block is recycled when the count
\* reaches 0
DropReference(p, b) ==
    LET p2 == [p EXCEPT !.refcount[b] = @ - 1] IN
    IF p2.refcount[b] = 0 THEN RecycleBlock(p2, b) ELSE p2

\* a duplicate that hands out the reference without counting it
DuplicateLightReference_NoCount(p, b) == [p EXCEPT !.light[b] = @ + 1]

\* bplib_mpool_duplicate_light_reference
DuplicateLightReference(p, b) ==
    [p EXCEPT !.refcount[b] = @ + 1, !.light[b] = @ + 1]

\* bplib_mpool_release_light_reference
ReleaseLightReference(p, b) == DropReference([p EXCEPT !.light[b] = @ - 1], b)

Live(b) ==
    /\ pool.type[b] \in RefcountTypes
    /\ b \notin pool.recycled

PoolUnchanged ==
    UNCHANGED << fs, dat, ino, tbl, mem, lock, pc, loc, held, uaf, enq, relq, ndec,
                 last, faults, cfg, early, file_stores, file_service_id, created,
                 subq, flows, links, res >>

\* the blocks on the free list: recycled blocks keep their tag until
\* bplib_mpool_maintain
FreeBlocks(p) ==
    {b \in Blocks : p.type[b] = bplib_mpool_blocktype_undefined /\ b \notin p.recycled}

\* an allocator that also takes blocks waiting on the recycled list
AllocCandidates_WithRecycled(p) == FreeBlocks(p) \cup p.recycled

\* the blocks an allocation may hand out
AllocCandidates(p) == FreeBlocks(p)

\* bplib_mpool_alloc_primary_block, bplib_mpool_alloc_cbor_data_block: a block
\* is taken from the free list, or the allocation fails
Alloc ==
    /\ IF AllocCandidates(pool) = {}
       THEN /\ pool' = pool
            /\ pool_last' = [op |-> "alloc_fail", blk |-> 0, before |-> 0]
       ELSE \E b \in AllocCandidates(pool),
               type \in {bplib_mpool_blocktype_cbor_data,
                         bplib_mpool_blocktype_primary} :
            /\ pool' = [pool EXCEPT !.type[b] = type]
            /\ pool_last' = [op |-> "alloc", blk |-> b, before |-> 0]
    /\ PoolUnchanged

\* bplib_mpool_make_dynamic_object: the caller's block becomes managed by the
\* pool and the first light reference is returned
MakeDynamicObject ==
    /\ \E b \in Blocks :
        /\ Live(b)
        /\ pool.refcount[b] = 0
        /\ pool' = [pool EXCEPT !.refcount[b] = 1, !.light[b] = 1]
        /\ pool_last' = [op |-> "make", blk |-> b, before |-> 0]
    /\ PoolUnchanged

DuplicateLight ==
    /\ \E b \in Blocks :
        /\ Live(b)
        /\ pool.light[b] > 0
        /\ pool.refcount[b] < MaxRefs
        /\ pool' = DuplicateLightReference(pool, b)
        /\ pool_last' = [op |-> "duplicate", blk |-> b, before |-> pool.refcount[b]]
    /\ PoolUnchanged

\* a release that follows the duplicate of a reference to the same block is
\* recorded as the pair, with the count before the duplicate
ReleaseLight ==
    /\ \E b \in Blocks :
        /\ Live(b)
        /\ pool.light[b] > 0
        /\ pool' = ReleaseLightReference(pool, b)
        /\ pool_last' = IF pool_last.op = "duplicate" /\ pool_last.blk = b
                        THEN [pool_last EXCEPT !.op = "duplicate_release"]
                        ELSE [op |-> "release", blk |-> b, before |-> pool.refcount[b]]
    /\ PoolUnchanged

\* the ref blocks in use
RefBlocks(p) ==
    {r \in Blocks : p.type[r] = bplib_mpool_blocktype_ref /\ r \notin p.recycled}

\* bplib_mpool_make_block_ref: a block is allocated that stands in for the
\* target b, kept by the caller or put on the list (a queue)
MakeBlockRef ==
    /\ \E b \in Blocks, r \in AllocCandidates(pool), onlist \in BOOLEAN :
        /\ Live(b)
        /\ pool.light[b] > 0
        /\ pool.refcount[b] < MaxRefs
        /\ pool' = [pool EXCEPT !.refcount[b] = @ + 1, !.heavy[b] = @ + 1,
                                !.type[r] = bplib_mpool_blocktype_ref,
                                !.target[r] = b,
                                !.onlist[r] = onlist,
                                !.fired[r] = 0]
        /\ pool_last' = [op |-> "make_ref", blk |-> b, before |-> pool.refcount[b]]
    /\ PoolUnchanged

\* bplib_mpool_recycle_block on the ref block r: the block goes to the
\* recycled list, its discard callback fires and its reference is released
RecycleRef(p, r) ==
    DropReference([p EXCEPT !.recycled = @ \cup {r},
                            !.onlist[r] = FALSE,
                            !.fired[r] = @ + 1,
                            !.heavy[p.target[r]] = @ - 1],
                  p.target[r])

\* the ref blocks of S recycled one after the other
RECURSIVE RecycleRefs(_, _)
RecycleRefs(p, S) ==
    IF S = {} THEN p
    ELSE LET r == CHOOSE x \in S : TRUE IN RecycleRefs(RecycleRef(p, r), S \ {r})

RecycleBlockRef ==
    /\ \E r \in RefBlocks(pool) :
        /\ pool' = RecycleRef(pool, r)
        /\ pool_last' = [op |-> "recycle_ref", blk |-> pool.target[r],
                         before |-> pool.refcount[pool.target[r]]]
    /\ PoolUnchanged

\* bplib_mpool_recycle_all_blocks_in_list on the list the ref blocks sit on
RecycleAllBlocksInList ==
    /\ \E r \in RefBlocks(pool) : pool.onlist[r]
    /\ pool' = RecycleRefs(pool, {r \in RefBlocks(pool) : pool.onlist[r]})
    /\ pool_last' = [op |-> "recycle_list", blk |-> 0, before |-> 0]
    /\ PoolUnchanged

\* bplib_mpool_maintain: the recycled blocks go back to the free list
Maintain ==
    /\ pool.recycled # {}
    /\ pool' = [pool EXCEPT
                  !.type = [b \in Blocks |-> IF b \in pool.recycled
                                              THEN bplib_mpool_blocktype_undefined
                                              ELSE pool.type[b]],
                  !.target = [b \in Blocks |-> IF b \in pool.recycled THEN 0
                                                ELSE pool.target[b]],
                  !.fired = [b \in Blocks |-> IF b \in pool.recycled THEN 0
                                               ELSE pool.fired[b]],
                  !.recycled = {}]
    /\ pool_last' = [op |-> "maintain", blk |-> 0, before |-> 0]
    /\ PoolUnchanged

InitM ==
    /\ InitCommon
    /\ cfg = [ callers |-> {}, conc |-> FALSE, faults |-> 0, sites |-> {},
               enq |-> 0, inputs |-> Inputs,
               retrieve |-> {}, release |-> {}, relinquish |-> {},
               timeouts |-> {} ]

NextM ==
    \/ Alloc
    \/ MakeDynamicObject
    \/ DuplicateLight
    \/ ReleaseLight
    \/ MakeBlockRef
    \/ RecycleBlockRef
    \/ RecycleAllBlocksInList
    \/ Maintain

SpecM == InitM /\ [][NextM]_vars

(* ----------------------------- sub-queues -------------------------------- *)
\* an append that lets the queue grow one past its limit
AppendSubq_PastLimit(q, cpb) ==
    IF Len(q.block_list) <= q.current_depth_limit
    THEN [q EXCEPT !.block_list = Append(@, cpb)]
    ELSE [q EXCEPT !.drop_count = @ + 1]

\* bplib_mpool_append_subq_bundle: the bundle goes to the tail when the depth
\* is below the limit, otherwise it is dropped and counted
AppendSubq(q, cpb) ==
    IF Len(q.block_list) < q.current_depth_limit
    THEN [q EXCEPT !.block_list = Append(@, cpb)]
    ELSE [q EXCEPT !.drop_count = @ + 1]

\* bplib_mpool_shift_subq_bundle: the head of the list is removed and returned,
\* NULL when the list is empty
ShiftSubq(q) ==
    IF q.block_list = <<>>
    THEN [q EXCEPT !.ret = NULL]
    ELSE [q EXCEPT !.ret = Head(q.block_list), !.block_list = Tail(@)]

\* everything but the sub-queue
SubqUnchanged ==
    UNCHANGED << fs, dat, ino, tbl, mem, lock, pc, loc, held, uaf, enq, relq, ndec,
                 last, faults, cfg, early, file_stores, file_service_id, created,
                 pool, pool_last, flows, links, res >>

\* the bundles are numbered in the order of the append calls
AppendSubqBundle ==
    /\ subq.appended < MaxAppends
    /\ LET cpb == subq.appended + 1
           q   == AppendSubq(subq, cpb)
       IN subq' = [q EXCEPT !.appended = cpb,
                            !.accepted = IF cpb \in { q.block_list[i] : i \in DOMAIN q.block_list }
                                         THEN Append(@, cpb) ELSE @,
                            !.op = "append"]
    /\ SubqUnchanged

ShiftSubqBundle ==
    /\ LET q == ShiftSubq(subq)
       IN subq' = [q EXCEPT !.shifted = IF q.ret = NULL THEN @ ELSE Append(@, q.ret),
                            !.op = "shift"]
    /\ SubqUnchanged

InitS ==
    /\ InitBase
    /\ subq \in { EmptySubq(limit) : limit \in 1 .. MaxDepth }
    /\ cfg = [ callers |-> {}, conc |-> FALSE, faults |-> 0, sites |-> {},
               enq |-> 0, inputs |-> Inputs,
               retrieve |-> {}, release |-> {}, relinquish |-> {},
               timeouts |-> {} ]

NextS ==
    \/ AppendSubqBundle
    \/ ShiftSubqBundle

SpecS == InitS /\ [][NextS]_vars

(* ------------------------------- flows ---------------------------------- *)
\* the flows on the active list
ActiveFlows(fl) == { fl.active[i] : i \in DOMAIN fl.active }

\* bplib_mpool_mark_flow_active: the flow is put on the active list unless it
\* is there already
MarkActive(fl, f) ==
    IF f \in ActiveFlows(fl) THEN fl ELSE [fl EXCEPT !.active = Append(@, f)]

\* a callback marks the flows of S, lowest first
RECURSIVE MarkAll(_, _)
MarkAll(fl, S) ==
    IF S = {} THEN fl
    ELSE LET f == CHOOSE x \in S : \A y \in S : x <= y
         IN MarkAll(MarkActive(fl, f), S \ {f})

\* the callback is invoked for every flow of todo in turn; the callback of
\* flow f marks the flows marks[f] active
RECURSIVE Sweep(_, _, _)
Sweep(fl, todo, marks) ==
    IF todo = <<>> THEN fl
    ELSE LET f == Head(todo)
         IN Sweep(MarkAll([fl EXCEPT !.calls[f] = @ + 1], marks[f]), Tail(todo), marks)

\* a sweep that fires the callbacks first and clears the active list last
ProcessFlows_ClearsLast(fl, marks) ==
    [ Sweep([fl EXCEPT !.calls = [f \in Flows |-> 0]], fl.active, marks)
        EXCEPT !.active = <<>>, !.ret = Len(fl.active) ]

\* bplib_mpool_process_all_flows: the active list is taken and cleared, then
\* the callback fires once per flow taken; returns the number of flows
ProcessFlows(fl, marks) ==
    [ Sweep([fl EXCEPT !.active = <<>>, !.calls = [f \in Flows |-> 0]],
            fl.active, marks)
        EXCEPT !.ret = Len(fl.active) ]

\* everything but the flows
FlowsUnchanged ==
    UNCHANGED << fs, dat, ino, tbl, mem, lock, pc, loc, held, uaf, enq, relq, ndec,
                 last, faults, cfg, early, file_stores, file_service_id, created,
                 pool, pool_last, subq, links, res >>

MarkFlowActive ==
    /\ \E f \in Flows : flows' = MarkActive(flows, f)
    /\ FlowsUnchanged

\* marked: the flows marked from inside the callbacks of this sweep;
\* carried: the flows that had been marked from inside the sweep before
ProcessAllFlows ==
    /\ flows.sweeps < MaxSweeps
    /\ \E marks \in [Flows -> SUBSET Flows] :
        flows' = [ ProcessFlows(flows, marks)
                     EXCEPT !.sweeps = @ + 1,
                            !.carried = flows.marked,
                            !.marked = UNION { marks[f] : f \in ActiveFlows(flows) } ]
    /\ FlowsUnchanged

InitF ==
    /\ InitCommon
    /\ cfg = [ callers |-> {}, conc |-> FALSE, faults |-> 0, sites |-> {},
               enq |-> 0, inputs |-> Inputs,
               retrieve |-> {}, release |-> {}, relinquish |-> {},
               timeouts |-> {} ]

NextF ==
    \/ MarkFlowActive
    \/ ProcessAllFlows

SpecF == InitF /\ [][NextF]_vars

(* ------------------------------- lists ---------------------------------- *)
\* the links of the block have been written
Initialised(lk, n) == lk.next[n] # NULL

\* bplib_mpool_is_link_attached
is_link_attached(lk, n) == lk.next[n] # n

\* bplib_mpool_is_link_unattached
is_link_unattached(lk, n) == lk.next[n] = n

\* bplib_mpool_init_list_head
InitListHeadLinks(lk, head) ==
    [lk EXCEPT !.next[head] = head, !.prev[head] = head,
               !.type[head] = bplib_mpool_blocktype_head]

\* bplib_mpool_insert_after: node goes between list and list->next
InsertAfterLinks(lk, list, node) ==
    LET after == lk.next[list]
    IN [lk EXCEPT !.next[node] = after, !.prev[node] = list,
                  !.next[list] = node, !.prev[after] = node]

\* an insert_before that puts the node on the wrong side of the position
InsertBeforeLinks_Prepends(lk, list, node) == InsertAfterLinks(lk, list, node)

\* bplib_mpool_insert_before: node goes between list->prev and list
InsertBeforeLinks(lk, list, node) ==
    LET before == lk.prev[list]
    IN [lk EXCEPT !.prev[node] = before, !.next[node] = list,
                  !.prev[list] = node, !.next[before] = node]

\* an extract that closes the list but leaves the node's own links alone
ExtractLinks_KeepsOwnLinks(lk, node) ==
    LET before == lk.prev[node]
        after  == lk.next[node]
    IN [lk EXCEPT !.next[before] = after, !.prev[after] = before]

\* bplib_mpool_extract_node: the neighbours are joined, the node becomes a
\* singleton
ExtractLinks(lk, node) ==
    LET before == lk.prev[node]
        after  == lk.next[node]
    IN [lk EXCEPT !.next[before] = after, !.prev[after] = before,
                  !.next[node] = node, !.prev[node] = node]

\* a merge that forgets the back link of the source
MergeLinks_HalfSpliced(lk, dest, src) ==
    LET dlast == lk.prev[dest]
        slast == lk.prev[src]
    IN [lk EXCEPT !.next[dlast] = src, !.next[slast] = dest,
                  !.prev[dest] = slast]

\* bplib_mpool_merge_listx: the two rings are spliced into one, head nodes
\* included
MergeLinks(lk, dest, src) ==
    LET dlast == lk.prev[dest]
        slast == lk.prev[src]
    IN [lk EXCEPT !.next[dlast] = src, !.next[slast] = dest,
                  !.prev[dest] = slast, !.prev[src] = dlast]

\* the blocks met from cur along the links f up to stop, in order
RECURSIVE OrderFrom(_, _, _, _)
OrderFrom(f, cur, stop, fuel) ==
    IF cur = stop \/ cur = NULL \/ fuel = 0 THEN <<>>
    ELSE << cur >> \o OrderFrom(f, f[cur], stop, fuel - 1)

\* the members of the list of n, walking next from n back to n
Order(lk, n) == OrderFrom(lk.next, lk.next[n], n, MaxNodes)

\* the same walk along prev
OrderBack(lk, n) == OrderFrom(lk.prev, lk.prev[n], n, MaxNodes)

SeqSet(seq) == { seq[i] : i \in DOMAIN seq }

\* seq without the element n
RECURSIVE Without(_, _)
Without(seq, n) ==
    IF seq = <<>> THEN <<>>
    ELSE IF Head(seq) = n THEN Without(Tail(seq), n)
    ELSE << Head(seq) >> \o Without(Tail(seq), n)

\* everything but the links
LinksUnchanged ==
    UNCHANGED << fs, dat, ino, tbl, mem, lock, pc, loc, held, uaf, enq, relq, ndec,
                 last, faults, cfg, early, file_stores, file_service_id, created,
                 pool, pool_last, subq, flows, res >>

\* a head is initialised when it is new or when its list is empty
InitListHead ==
    /\ \E head \in Heads :
        /\ links.next[head] \in {NULL, head}
        /\ links' = [InitListHeadLinks(links, head)
                       EXCEPT !.last = [op |-> "init_list_head", a |-> head, b |-> 0]]
    /\ LinksUnchanged

\* the node being inserted is a singleton
InsertAfter ==
    /\ \E list \in Nodes, node \in Nodes \ Heads :
        /\ Initialised(links, list)
        /\ is_link_unattached(links, node)
        /\ list # node
        /\ links' = [InsertAfterLinks(links, list, node)
                       EXCEPT !.last = [op |-> "insert_after", a |-> list, b |-> node]]
    /\ LinksUnchanged

InsertBefore ==
    /\ \E list \in Nodes, node \in Nodes \ Heads :
        /\ Initialised(links, list)
        /\ is_link_unattached(links, node)
        /\ list # node
        /\ links' = [InsertBeforeLinks(links, list, node)
                       EXCEPT !.last = [op |-> "insert_before", a |-> list, b |-> node]]
    /\ LinksUnchanged

\* last.b: the block that preceded the node, 0 when the node was a singleton
ExtractNode ==
    /\ \E node \in Nodes :
        /\ Initialised(links, node)
        /\ links' = [ExtractLinks(links, node)
                       EXCEPT !.last = [op |-> "extract_node", a |-> node,
                                        b |-> IF is_link_attached(links, node)
                                              THEN links.prev[node] ELSE 0]]
    /\ LinksUnchanged

MergeListx ==
    /\ \E dest \in Nodes, src \in Nodes :
        /\ Initialised(links, dest)
        /\ Initialised(links, src)
        /\ dest # src
        /\ links' = [MergeLinks(links, dest, src)
                       EXCEPT !.last = [op |-> "merge_listx", a |-> dest, b |-> src]]
    /\ LinksUnchanged

InitD ==
    /\ InitCommon
    /\ cfg = [ callers |-> {}, conc |-> FALSE, faults |-> 0, sites |-> {},
               enq |-> 0, inputs |-> Inputs,
               retrieve |-> {}, release |-> {}, relinquish |-> {},
               timeouts |-> {} ]

NextD ==
    \/ InitListHead
    \/ InsertAfter
    \/ InsertBefore
    \/ ExtractNode
    \/ MergeListx

SpecD == InitD /\ [][NextD]_vars

(* ------------------------- the table of stores -------------------------- *)

\* what a caller may pass as attr: no attr (length and size 0), or a root
\* path of the given length and a cache size, 0 standing for "not given"
Attrs == [root_len : {0, 3, FILE_MAX_FILENAME}, cache_size : {0, 1}]

\* the setup steps of create that can fail
CreateFailures == {"none", "lock", "root", "cache"}

\* bplib_store_file_destroy: the fields are left as they are
DestroyStore(st) == [st EXCEPT !.in_use = FALSE]

\* a create that does not clear the slot it takes
NewStore_NoMemset(old, service_id, attr, fail) ==
    LET s1 == [old EXCEPT
                  !.in_use = TRUE,
                  !.service_id = service_id,
                  !.lock = BP_INVALID_HANDLE,
                  !.write_data_id = 1,
                  !.read_data_id = 1,
                  !.retrieve_data_id = 1,
                  !.relinquish_data_id = 1]
        root_len      == IF attr.root_len # 0 THEN attr.root_len ELSE DefaultRootLen
        root_path_len == Min(root_len, FILE_MAX_FILENAME) + 1
        s2 == [s1 EXCEPT !.lock = service_id]
        s3 == [s2 EXCEPT !.file_root = IF root_path_len <= FILE_MAX_FILENAME
                                          /\ fail # "root"
                                       THEN root_len ELSE NULL]
        cache_size == IF attr.cache_size # 0 THEN attr.cache_size
                      ELSE FILE_DEFAULT_CACHE_SIZE
        s4 == [s3 EXCEPT !.cache_size = cache_size,
                         !.data_cache = IF fail = "cache" THEN EmptyMap
                                        ELSE [i \in 0 .. (cache_size - 1) |-> EmptySlot]]
    IN IF fail = "lock" THEN DestroyStore(s1)
       ELSE IF s3.file_root = NULL THEN DestroyStore(s3)
       ELSE IF s4.data_cache = EmptyMap THEN DestroyStore(s4)
       ELSE s4

\* file.c:263-332: the slot create leaves behind, given the slot it found,
\* the service id, the caller's attr and the setup step that fails
NewStore(old, service_id, attr, fail) ==
    LET s1 == [ZeroStore EXCEPT
                  !.in_use = TRUE,
                  !.service_id = service_id,
                  !.lock = BP_INVALID_HANDLE,
                  !.write_data_id = 1,
                  !.read_data_id = 1,
                  !.retrieve_data_id = 1,
                  !.relinquish_data_id = 1]
        root_len      == IF attr.root_len # 0 THEN attr.root_len ELSE DefaultRootLen
        root_path_len == Min(root_len, FILE_MAX_FILENAME) + 1
        s2 == [s1 EXCEPT !.lock = service_id]
        s3 == [s2 EXCEPT !.file_root = IF root_path_len <= FILE_MAX_FILENAME
                                          /\ fail # "root"
                                       THEN root_len ELSE NULL]
        cache_size == IF attr.cache_size # 0 THEN attr.cache_size
                      ELSE FILE_DEFAULT_CACHE_SIZE
        s4 == [s3 EXCEPT !.cache_size = cache_size,
                         !.data_cache = IF fail = "cache" THEN EmptyMap
                                        ELSE [i \in 0 .. (cache_size - 1) |-> EmptySlot]]
    IN IF fail = "lock" THEN DestroyStore(s1)
       ELSE IF s3.file_root = NULL THEN DestroyStore(s3)
       ELSE IF s4.data_cache = EmptyMap THEN DestroyStore(s4)
       ELSE s4

\* file.c:293-329: a create that succeeds has allocated the root path and
\* the cache array; one that fails has freed, through destroy, what it had
\* allocated
CreateResources(r, handle, st) ==
    IF st.in_use
    THEN [r EXCEPT !.heap = @ \cup {<< handle, "file_root" >>, << handle, "data_cache" >>}]
    ELSE r

\* file.c:347-352: the write, read and retrieve files are closed, the root
\* path and the cache array are freed
DestroyResources(r, handle) ==
    [ heap |-> r.heap \ {<< handle, "file_root" >>, << handle, "data_cache" >>},
      fds  |-> r.fds \ {<< handle, "write_fd" >>, << handle, "read_fd" >>,
                        << handle, "retrieve_fd" >>} ]

\* after the first record has been enqueued and dequeued the write and the
\* read file are open and the object is in the cache (file.c:384, 523, 573)
UseResources(r, handle) ==
    [ heap |-> r.heap \cup {<< handle, "object" >>},
      fds  |-> r.fds \cup {<< handle, "write_fd" >>, << handle, "read_fd" >>} ]

FreeSlots(tab) == {s \in Slots : ~tab[s].in_use}

LowestFree(tab) == CHOOSE s \in FreeSlots(tab) : \A u \in FreeSlots(tab) : s <= u

\* bplib_store_file_create
Create ==
    /\ \E attr \in Attrs, fail \in CreateFailures :
        IF FreeSlots(file_stores) = {}
        THEN /\ fail = "none"
             /\ created' = [tick |-> 1 - created.tick, op |-> "create",
                            handle |-> BP_INVALID_HANDLE, attr |-> attr,
                            fail |-> fail, reuse |-> FALSE]
             /\ UNCHANGED << file_stores, file_service_id, res >>
        ELSE LET s  == LowestFree(file_stores)
                 st == NewStore(file_stores[s], file_service_id, attr, fail)
             IN /\ file_service_id < MaxCreates
                /\ file_stores' = [file_stores EXCEPT ![s] = st]
                /\ file_service_id' = file_service_id + 1
                /\ res' = CreateResources(res, s, st)
                /\ created' = [tick |-> 1 - created.tick, op |-> "create",
                               handle |-> IF st.in_use THEN s ELSE BP_INVALID_HANDLE,
                               attr |-> attr, fail |-> fail,
                               reuse |-> file_stores[s].data_count # 0]
    /\ UNCHANGED << fs, dat, ino, tbl, mem, lock, pc, loc, held, uaf, enq, relq,
                    ndec, last, faults, cfg, early, pool, pool_last, subq, flows, links >>

\* bplib_store_file_destroy
Destroy ==
    /\ \E handle \in Slots :
        /\ file_stores[handle].in_use
        /\ file_stores' = [file_stores EXCEPT ![handle] = DestroyStore(@)]
        /\ res' = DestroyResources(res, handle)
        /\ created' = [tick |-> 1 - created.tick, op |-> "destroy",
                       handle |-> handle, attr |-> NoAttr, fail |-> "none",
                       reuse |-> FALSE]
    /\ UNCHANGED << fs, dat, ino, tbl, mem, lock, pc, loc, held, uaf, enq, relq,
                    ndec, last, faults, cfg, early, file_service_id, pool, pool_last, subq, flows, links >>

\* the fields of a store after its first record has been enqueued and
\* dequeued (file.c:467-470, 629-646)
AfterOneRecord(st) ==
    [st EXCEPT !.data_count = 1,
               !.write_fd = [ino |-> 1, pos |-> 0],
               !.write_data_id = 2,
               !.read_fd = [ino |-> 1, pos |-> SizeWord + HdrSize + 1],
               !.read_data_id = 2,
               !.data_cache[0] = [mem_ptr |-> 1, mem_locked |-> FILE_MEM_LOCKED,
                                  mem_data_id |-> 0]]

\* a store of the table is used through its handle
UseStore ==
    /\ \E handle \in Slots :
        /\ file_stores[handle].in_use
        /\ file_stores[handle].data_count = 0
        /\ file_stores' = [file_stores EXCEPT ![handle] = AfterOneRecord(@)]
        /\ res' = UseResources(res, handle)
    /\ UNCHANGED << fs, dat, ino, tbl, mem, lock, pc, loc, held, uaf, enq, relq,
                    ndec, last, faults, cfg, early, file_service_id, created, pool, pool_last, subq, flows, links >>

\* after bplib_store_file_init
InitT ==
    /\ InitCommon
    /\ cfg = [ callers |-> {}, conc |-> FALSE, faults |-> 0, sites |-> {},
               enq |-> 0, inputs |-> Inputs,
               retrieve |-> {}, release |-> {}, relinquish |-> {},
               timeouts |-> {} ]

NextT == Create \/ Destroy \/ UseStore

SpecT == InitT /\ [][NextT]_vars

(* ------------------------------- claims -------------------------------- *)

\* the object (header cell, then payload) of the k-th successful enqueue
Enqueued(k) == << Len(enq[k]) >> \o enq[k]

\* a call of op returns in this step
Returns(op) == last'.tick # last.tick /\ last'.op = op

\* C1: a retrieve that returns BP_SUCCESS for the sid of an enqueued and not
\* relinquished record yields an object stamped with that sid whose payload is
\* data1 followed by data2 of the sid-th successful enqueue, from the cache or
\* from the bucket file, whatever the previous retrieve position.
C1_RetrieveYieldsEnqueued ==
    [][ (/\ Returns("retrieve")
         /\ last'.status = BP_SUCCESS
         /\ last'.sid \in 1 .. Len(enq)
         /\ last'.sid \notin relq)
        => /\ last'.obj \in DOMAIN mem'
           /\ mem'[last'.obj] = [sid |-> last'.sid, raw |-> Enqueued(last'.sid)] ]_vars

\* C2: the k-th successful dequeue returns the payload of the k-th successful
\* enqueue stamped with sid k, whatever dequeues timed out or failed and
\* whatever retrieves and releases came in between (read_data_id counts the
\* successful dequeues: the one that returns is number read_data_id of the
\* state it was called in).
C2_DequeueFifo ==
    [][ (Returns("dequeue") /\ last'.status = BP_SUCCESS)
        => /\ fs.read_data_id \in 1 .. Len(enq)
           /\ last'.obj \in DOMAIN mem'
           /\ mem'[last'.obj] = [sid |-> fs.read_data_id,
                                 raw |-> Enqueued(fs.read_data_id)] ]_vars

\* the thread whose call returns in this step, and the store and the heap as
\* they were when that call began
Returning == CHOOSE t \in Threads : pc'[t] = "idle" /\ (pc[t] # "idle" \/ MayCall(t))

StoreAtCall == IF pc[Returning] = "idle" THEN fs ELSE loc[Returning].pre[1]

\* the parts of the store C3 names
QueueState(s) ==
    << s.read_data_id, s.retrieve_data_id, s.read_fd.pos, s.retrieve_fd.pos,
       s.read_error, s.write_error, s.data_count, s.data_cache >>

\* C3: when dequeue or retrieve returns BP_TIMEOUT the store is as it was
\* before the call (read_data_id, retrieve_data_id, the read and retrieve file
\* positions, the error flags, data_count and every cache slot) and the object
\* buffer of the call has been freed.
C3_TimeoutChangesNothing ==
    [][ ((Returns("dequeue") \/ Returns("retrieve")) /\ last'.status = BP_TIMEOUT)
        => /\ QueueState(fs') = QueueState(StoreAtCall)
           /\ loc[Returning].object_ptr \notin DOMAIN mem' ]_vars

\* a release of a sid returns in this step
ReleaseReturns == Returns("release")

\* C10: for a sid resident in the cache, the first of two releases in a row
\* returns BP_SUCCESS and the second returns BP_FAILEDSTORE.
C10_SecondReleaseFails ==
    [][ ReleaseReturns
        => /\ CacheHit(fs, GET_DATAID(last'.sid)) /\ ~last'.again
              => last'.status = BP_SUCCESS
           /\ last'.again => last'.status = BP_FAILEDSTORE ]_vars

\* C10 as amended: for a sid resident in the cache, both of two releases in a
\* row return BP_SUCCESS, and the sid is still resident, unlocked, after each.
C10_BothReleasesSucceed ==
    [][ (ReleaseReturns /\ (CacheHit(fs, GET_DATAID(last'.sid)) \/ last'.again))
        => /\ last'.status = BP_SUCCESS
           /\ CacheHit(fs', GET_DATAID(last'.sid))
           /\ fs'.data_cache[GET_DATAID(last'.sid) % fs'.cache_size].mem_locked
                  = FILE_MEM_AVAIABLE ]_vars

\* a second release in a row has returned BP_SUCCESS
C10_Witness ==
    /\ last.op = "release" /\ last.again /\ last.status = BP_SUCCESS
    /\ CacheHit(fs, GET_DATAID(last.sid))

\* C6: when enqueue returns BP_FAILEDSTORE because of a short write or a
\* failed flush, write_error is set, the write file is closed, and
\* write_data_id and data_count are what they were before the call.
C6_FailedWriteKeepsPosition ==
    [][ (Returns("enqueue") /\ last'.status = BP_FAILEDSTORE /\ last'.why = "write")
        => /\ fs'.write_error
           /\ fs'.write_fd = NullFd
           /\ fs'.write_data_id = fs.write_data_id
           /\ fs'.data_count = fs.data_count ]_vars

\* an enqueue has failed in its writes after a record had been enqueued
C6_Witness ==
    /\ last.op = "enqueue" /\ last.status = BP_FAILEDSTORE /\ last.why = "write"
    /\ Len(enq) > 0
    /\ fs.write_error

\* the record of the k-th successful enqueue as enqueue writes it
RecordOf(k) == << HdrSize + Len(enq[k]), Len(enq[k]) >> \o enq[k]

\* the records of the successful enqueues from..to, one after the other
RECURSIVE RecordsOf(_, _)
RecordsOf(from, to) ==
    IF from > to THEN <<>> ELSE RecordOf(from) \o RecordsOf(from + 1, to)

\* bucket file_id holds exactly the records enqueued into it, in order
BucketWellFormed(file_id) ==
    ino[dat[file_id]] = RecordsOf(file_id * FILE_DATA_COUNT + 1,
                                  Min(Len(enq), (file_id + 1) * FILE_DATA_COUNT))

\* C7: once the retry of an enqueue that failed with a short write has
\* succeeded (no write error is pending), every bucket file holds exactly one
\* well-formed record per successful enqueue, in enqueue order, the record of
\* data id d at slot GET_DATAOFFSET(d).
C7_RetryLandsAtSlot ==
    (~fs.write_error /\ \A t \in Threads : pc[t] = "idle")
    => \A file_id \in DOMAIN dat : BucketWellFormed(file_id)

\* the object the next dequeue reads when the store is s and nothing fails:
\* file.c:519-580 run on s (<<>> when the open or a read fails)
DequeueWouldRead(s) ==
    LET data_id == GET_DATAID(s.read_data_id)
        fd      == IF s.read_fd = NullFd THEN OpenRead(dat, GET_FILEID(data_id))
                   ELSE s.read_fd
        sk      == IF s.read_error
                   THEN SkipRecords(ino[fd.ino], 0, GET_DATAOFFSET(data_id), -1)
                   ELSE [ok |-> TRUE, pos |-> fd.pos, hit |-> FALSE]
    IN IF fd = NullFd \/ ~sk.ok THEN <<>>
       ELSE ReadObject(ino[fd.ino], sk.pos, FALSE).raw

\* C8: when dequeue returns BP_FAILEDSTORE the queue state is unchanged:
\* read_data_id keeps its value, and if the next dequeue was going to return
\* the record of that read_data_id before the call, then after the call the
\* next dequeue does not return another record (it reads that record or fails).
C8_FailedDequeueKeepsQueue ==
    [][ (Returns("dequeue") /\ last'.status = BP_FAILEDSTORE)
        => /\ fs'.read_data_id = StoreAtCall.read_data_id
           /\ (/\ StoreAtCall.read_data_id \in 1 .. Len(enq)
               /\ DequeueWouldRead(StoreAtCall) = Enqueued(StoreAtCall.read_data_id))
              => DequeueWouldRead(fs') \in {<<>>, Enqueued(fs'.read_data_id)} ]_vars

\* C9: when relinquish of an enqueued sid returns BP_FAILEDSTORE the bundle is
\* still live: its slot has not been marked freed, the freed count of its
\* bucket has not grown, and data_count has not been decremented.
C9_FailedRelinquishKeepsBundle ==
    [][ (/\ Returns("relinquish")
         /\ last'.status = BP_FAILEDSTORE
         /\ last'.sid \in 1 .. Len(enq))
        => /\ relq' = relq
           /\ ndec' = ndec
           /\ fs'.data_count = fs.data_count ]_vars

\* C4: every operation runs under the handle's lock, so no update of
\* data_count is lost however enqueue and relinquish interleave: when no call
\* is in progress data_count is the number of successful enqueues less the
\* number of slots relinquish has marked freed.
C4_NoLostCountUpdate ==
    (\A t \in Threads : pc[t] = "idle") => fs.data_count = Len(enq) - ndec

\* C5: an object handed out by a successful dequeue or retrieve is not freed
\* by a call of another thread before its holder has released its sid.
C5_HeldObjectStaysValid == ~uaf

\* the sids of bucket file_id
BucketSids(file_id) == (file_id * FILE_DATA_COUNT + 1) .. ((file_id + 1) * FILE_DATA_COUNT)

\* the bucket of a sid
BucketOf(sid) == GET_FILEID(GET_DATAID(sid))

\* C11: when the last sid of a bucket whose records have all been enqueued is
\* relinquished (each sid once, in any order, whatever other buckets were
\* relinquished from in between), the call returns BP_SUCCESS and the bucket's
\* .dat and .tbl files are gone; and with exactly one bucketful of records
\* enqueued and all of them relinquished, data_count is 0.
C11_LastRelinquishDeletesBucket ==
    [][ (/\ Returns("relinquish")
         /\ last'.sid \notin relq
         /\ BucketSids(BucketOf(last'.sid)) \ {last'.sid} \subseteq relq
         /\ Len(enq) >= (BucketOf(last'.sid) + 1) * FILE_DATA_COUNT)
        => /\ last'.status = BP_SUCCESS
           /\ BucketOf(last'.sid) \notin DOMAIN dat'
           /\ BucketOf(last'.sid) \notin DOMAIN tbl'
           /\ (Len(enq) = FILE_DATA_COUNT /\ relq' = BucketSids(0))
              => fs'.data_count = 0 ]_vars

\* a bucket has been deleted by the relinquish of its last sid, after a sid of
\* another bucket had been relinquished
C11_Witness ==
    /\ \A t \in Threads : pc[t] = "idle"
    /\ last.op = "relinquish" /\ last.status = BP_SUCCESS
    /\ BucketSids(BucketOf(last.sid)) \subseteq relq
    /\ \E sid \in relq : BucketOf(sid) # BucketOf(last.sid)
    /\ Len(enq) >= (BucketOf(last.sid) + 1) * FILE_DATA_COUNT
    /\ BucketOf(last.sid) \notin DOMAIN dat
    /\ fs.relinquish_table.free_cnt = FILE_DATA_COUNT

\* The sids that dequeue has handed out so far.
DequeuedSids == 1 .. (fs.read_data_id - 1)

\* C12: in a store in which only dequeued sids are relinquished, between calls
\* data_count is the number of records not yet dequeued plus the number of
\* records dequeued and not yet relinquished, which is the number of
\* successful enqueues minus the number of distinct sids relinquished.
C12_CountIdentity ==
    ((\A t \in Threads : pc[t] = "idle") /\ ~early)
        => /\ fs.data_count = (fs.write_data_id - fs.read_data_id)
                                + Cardinality(DequeuedSids \ relq)
           /\ fs.data_count = Len(enq) - Cardinality(relq)

\* C13: no step decreases write_data_id or read_data_id, read_data_id never
\* passes write_data_id, also with several dequeuers and enqueuers on the
\* handle, and dequeue hands out no object while the two are equal.
C13_ReadNeverPassesWrite ==
    [][ /\ fs'.write_data_id >= fs.write_data_id
        /\ fs'.read_data_id >= fs.read_data_id
        /\ fs'.read_data_id <= fs'.write_data_id
        /\ (Returns("dequeue") /\ last'.status = BP_SUCCESS)
              => fs.read_data_id # fs.write_data_id ]_vars

\* C14: every cache slot is empty or holds the object of the data_id recorded
\* in the slot: the data_id maps to the slot's index, the object is stamped
\* with sid data_id + 1 and carries the record enqueued under that sid.
\* Stated for every step that changes a slot, for the sids that had been
\* enqueued when the step was taken.
C14_SlotHoldsItsDataId ==
    [][ \A i \in DOMAIN fs.data_cache :
          LET slot == fs'.data_cache[i] IN
          (/\ slot # fs.data_cache[i]
           /\ slot.mem_ptr # NULL
           /\ slot.mem_data_id + 1 \in 1 .. Len(enq))
            => /\ slot.mem_data_id % fs.cache_size = i
               /\ slot.mem_ptr \in DOMAIN mem'
               /\ mem'[slot.mem_ptr].sid = slot.mem_data_id + 1
               /\ mem'[slot.mem_ptr].raw = Enqueued(slot.mem_data_id + 1) ]_vars

SlotLocked(s, data_id) ==
    s.data_cache[data_id % s.cache_size].mem_locked # FILE_MEM_AVAIABLE

\* C15: dequeue and retrieve never overwrite a locked cache slot. No step of
\* a dequeue or retrieve changes a slot that is locked; a call whose target
\* slot is locked sleeps on the store lock (unless its timeout is BP_CHECK)
\* and, when the slot is locked as it looks again, returns BP_TIMEOUT with the
\* slot's pointer, data_id and lock flag as they were; it replaces the
\* occupant, and frees it, only when the slot is unlocked then.
C15_LockedSlotNotOverwritten ==
    [][ /\ \A i \in DOMAIN fs.data_cache :
            (/\ fs.data_cache[i].mem_locked # FILE_MEM_AVAIABLE
             /\ ~Returns("release") /\ ~Returns("relinquish"))
              => /\ fs'.data_cache[i] = fs.data_cache[i]
                 /\ fs.data_cache[i].mem_ptr \in DOMAIN mem'
        /\ \A t \in Threads :
            (/\ pc[t] \in {"deq_wait_cache", "ret_wait_cache"}
             /\ pc'[t] = "idle"
             /\ SlotLocked(fs, loc[t].data_id))
              => /\ last'.status = BP_TIMEOUT
                 /\ fs'.data_cache = fs.data_cache
                 /\ loc[t].object_ptr \notin DOMAIN mem'
        /\ \A t \in Threads :
            (/\ pc[t] \in {"deq_wait_cache", "ret_wait_cache"}
             /\ pc'[t] = "idle"
             /\ last'.status = BP_SUCCESS)
              => LET slot == fs.data_cache[loc[t].data_id % fs.cache_size] IN
                 /\ slot.mem_locked = FILE_MEM_AVAIABLE
                 /\ slot.mem_ptr # NULL => slot.mem_ptr \notin DOMAIN mem'
                 /\ fs'.data_cache[loc[t].data_id % fs.cache_size] =
                        [mem_ptr |-> loc[t].object_ptr,
                         mem_locked |-> FILE_MEM_LOCKED,
                         mem_data_id |-> loc[t].data_id] ]_vars

\* a call that slept for a locked cache slot has returned BP_TIMEOUT, and the
\* slot still holds, locked, the object that a thread was given
C15_Witness ==
    /\ last.op \in {"dequeue", "retrieve"}
    /\ last.status = BP_TIMEOUT
    /\ last.why = "cache"
    /\ \E i \in DOMAIN fs.data_cache, u \in Threads :
        /\ fs.data_cache[i].mem_locked = FILE_MEM_LOCKED
        /\ \E x \in held[u] : x.ptr = fs.data_cache[i].mem_ptr
    /\ \A t \in Threads : pc[t] = "idle"

\* every sid of the bucket has been relinquished and its data file is gone
BucketDeleted(file_id) ==
    /\ Len(enq) >= (file_id + 1) * FILE_DATA_COUNT
    /\ BucketSids(file_id) \subseteq relq
    /\ file_id \notin DOMAIN dat

\* C16: once all sids of a bucket have been relinquished and the bucket is
\* deleted, retrieve of a sid of that bucket returns BP_FAILEDSTORE and hands
\* out no object, whatever was retrieved from the bucket before.
C16_RetrieveAfterDeleteFails ==
    [][ (Returns("retrieve") /\ BucketDeleted(BucketOf(last'.sid)))
        => /\ last'.status = BP_FAILEDSTORE
           /\ last'.obj = NULL ]_vars

CreateReturns == created'.tick # created.tick /\ created'.op = "create"

\* the slot create returns: in use, an empty queue, nothing open, nothing
\* cached
FreshStore(st) ==
    /\ st.in_use
    /\ st.data_count = 0
    /\ st.write_data_id = 1 /\ st.read_data_id = 1
    /\ st.write_fd = NullFd /\ st.read_fd = NullFd
    /\ st.retrieve_fd = NullFd /\ st.relinquish_fd = NullFd
    /\ ~st.write_error /\ ~st.read_error
    /\ st.cache_size > 0
    /\ DOMAIN st.data_cache = 0 .. (st.cache_size - 1)
    /\ \A i \in DOMAIN st.data_cache : st.data_cache[i] = EmptySlot

\* C17: create returns the lowest slot that is not in use, in use and with
\* an empty queue, also when the slot was used and destroyed before; when
\* every slot is in use, or the setup of the lock, the root path or the cache
\* fails, it returns BP_INVALID_HANDLE and no further slot is in use.
C17_CreateLowestFreeSlot ==
    [][ CreateReturns =>
          LET free   == FreeSlots(file_stores)
              failed == \/ created'.fail # "none"
                        \/ created'.attr.root_len >= FILE_MAX_FILENAME
          IN IF free = {} \/ failed
             THEN /\ created'.handle = BP_INVALID_HANDLE
                  /\ FreeSlots(file_stores') = free
             ELSE /\ created'.handle = LowestFree(file_stores)
                  /\ FreshStore(file_stores'[created'.handle])
                  /\ \A s \in Slots \ {created'.handle} :
                        file_stores'[s] = file_stores[s] ]_vars

\* create has returned a slot that had been used and destroyed, while a
\* lower slot is in use
C17_Witness ==
    /\ created.op = "create"
    /\ created.handle > 0
    /\ created.reuse
    /\ FreshStore(file_stores[created.handle])
    /\ \A s \in 0 .. (created.handle - 1) : file_stores[s].in_use

\* the bucket the n-th successful enqueue writes to
BucketOfEnqueue(n) == (n - 1) \div FILE_DATA_COUNT

\* C18: without I/O errors the n-th successful enqueue writes its record as
\* slot (n - 1) % FILE_DATA_COUNT of bucket (n - 1) \div FILE_DATA_COUNT: between
\* calls every bucket that has not been deleted holds exactly the records
\* enqueued into it, in order, FILE_DATA_COUNT of them when it is full; the write
\* file is closed exactly when the last bucket is full; after
\* FILE_DATA_COUNT + 1 enqueues the count is FILE_DATA_COUNT + 1.
C18_EnqueueFillsBuckets ==
    ((\A t \in Threads : pc[t] = "idle") /\ Len(enq) > 0)
        => /\ fs.write_data_id = Len(enq) + 1
           /\ \A b \in DOMAIN dat : b \in 0 .. BucketOfEnqueue(Len(enq))
           /\ \A b \in 0 .. BucketOfEnqueue(Len(enq)) :
                IF b \in DOMAIN dat
                THEN BucketWellFormed(b)
                ELSE BucketSids(b) \subseteq relq
           /\ (fs.write_fd = NullFd) <=> (Len(enq) % FILE_DATA_COUNT = 0)
           /\ (fs.write_fd # NullFd /\ BucketOfEnqueue(Len(enq)) \in DOMAIN dat)
                => fs.write_fd.ino = dat[BucketOfEnqueue(Len(enq))]
           /\ (Len(enq) = FILE_DATA_COUNT + 1 /\ relq = {})
                => fs.data_count = FILE_DATA_COUNT + 1

\* one enqueue more than a bucket holds: the first bucket is full, the
\* second holds the last record and is the one open for writing
C18_Witness ==
    /\ \A t \in Threads : pc[t] = "idle"
    /\ last.op = "enqueue" /\ last.status = BP_SUCCESS
    /\ Len(enq) = FILE_DATA_COUNT + 1
    /\ relq = {}
    /\ ino[dat[0]] = RecordsOf(1, FILE_DATA_COUNT)
    /\ ino[dat[1]] = RecordOf(FILE_DATA_COUNT + 1)
    /\ fs.write_fd.ino = dat[1]
    /\ fs.data_count = FILE_DATA_COUNT + 1

\* thread t is in a dequeue that found the queue empty and waits without a
\* time limit, before or in bplib_os_waiton
WaitsForWork(t) ==
    /\ pc[t] \in {"deq_empty", "deq_wait_empty"}
    /\ loc[t].timeout = BP_PEND

\* an enqueue on the handle has succeeded and returned: a record is there to
\* dequeue and no enqueue is on its way to the signal
WorkArrived ==
    /\ fs.read_data_id # fs.write_data_id
    /\ \A u \in Threads : pc[u] # "enq_count"

\* C19: a dequeue that waits without a time limit on an empty store leaves
\* the wait once an enqueue of another thread has succeeded, wherever the
\* enqueue fell in the dequeue, under fair scheduling of the calls in
\* progress: the signal of enqueue is not lost.
C19_EnqueueWakesDequeuer ==
    \A t \in Threads :
        (WaitsForWork(t) /\ WorkArrived) ~> ~WaitsForWork(t)

\* C20: a light reference to a refcount-capable block is duplicated and the
\* duplicate released: the block's refcount is what it was before, and the
\* block has not been recycled.
C20_DuplicateReleaseRestores ==
    pool_last.op = "duplicate_release"
        => /\ pool.refcount[pool_last.blk] = pool_last.before
           /\ pool_last.blk \notin pool.recycled
           /\ pool.type[pool_last.blk] \in RefcountTypes
           /\ pool.light[pool_last.blk] > 0

\* the duplicate of the only reference to a block has been released
C20_Witness ==
    /\ pool_last.op = "duplicate_release"
    /\ pool_last.before = 1
    /\ pool.refcount[pool_last.blk] = 1
    /\ pool.heavy[pool_last.blk] = 0

\* the references to b that have been handed out and not given back
Outstanding(p, b) == p.light[b] + p.heavy[b]

\* C21: with any mix of light references and ref blocks on a target, the
\* refcount is never negative; the target is recycled in the step in which
\* its last reference is dropped (a light reference released, a ref block
\* recycled directly or with the list it sits on) and the refcount reaches 0,
\* not before; the discard callback of a ref block fires once when the block
\* is recycled, and at no other time.
C21_RecycledAtLastReference ==
    [][ \A b \in Blocks :
          /\ pool'.refcount[b] >= 0
          /\ pool'.type[b] \in RefcountTypes
                => /\ pool'.refcount[b] = Outstanding(pool', b)
                   /\ b \in pool'.recycled => pool'.refcount[b] = 0
                   /\ (pool.refcount[b] > 0 /\ pool'.refcount[b] = 0)
                        <=> (pool.type[b] = pool'.type[b] /\ b \in pool'.recycled \ pool.recycled)
          /\ pool'.type[b] = bplib_mpool_blocktype_ref
                => /\ pool'.fired[b] = IF b \in pool'.recycled THEN 1 ELSE 0
                   /\ b \in pool.recycled => pool'.fired[b] = pool.fired[b] ]_vars

\* the last light reference was released first; the sweep of the list then
\* recycled the ref blocks, fired each callback once and recycled the target
C21_Witness ==
    /\ pool_last.op = "recycle_list"
    /\ \E b \in Blocks, r \in Blocks :
        /\ pool.type[b] \in RefcountTypes
        /\ b \in pool.recycled
        /\ pool.refcount[b] = 0
        /\ pool.type[r] = bplib_mpool_blocktype_ref
        /\ pool.target[r] = b
        /\ r \in pool.recycled
        /\ pool.fired[r] = 1

\* C22: an allocation hands out a block of the free list and fails exactly
\* when the free list is empty; a recycled block keeps its tag and stays on
\* the recycled list, out of reach of allocations, until maintain resets the
\* tag and moves the block to the free list.
C22_AllocFromFreeListOnly ==
    [][ /\ (pool_last'.op = "alloc" /\ pool' # pool)
            => /\ pool_last'.blk \in FreeBlocks(pool)
               /\ pool_last'.blk \notin pool.recycled
               /\ pool'.type[pool_last'.blk] # bplib_mpool_blocktype_undefined
        /\ (pool_last'.op = "alloc_fail" /\ pool_last' # pool_last)
            => /\ FreeBlocks(pool) = {}
               /\ pool' = pool
        /\ \A b \in pool.recycled :
            \/ b \in pool'.recycled /\ pool'.type[b] = pool.type[b]
            \/ /\ pool_last'.op = "maintain"
               /\ b \in FreeBlocks(pool')
        /\ \A b \in Blocks :
            (pool.type[b] # bplib_mpool_blocktype_undefined
             /\ pool'.type[b] # pool.type[b])
              => pool_last'.op = "maintain" /\ b \in pool.recycled ]_vars

\* an allocation has failed while recycled blocks wait for maintain
C22_Witness ==
    /\ pool_last.op = "alloc_fail"
    /\ pool.recycled # {}
    /\ FreeBlocks(pool) = {}

\* C23: an append to a sub-queue whose depth is below its limit L puts the
\* bundle at the tail and leaves the drop count alone, an append at depth L
\* leaves the queue alone and adds one to the drop count; the depth never
\* exceeds L; a shift returns the oldest accepted bundle not yet returned, so
\* the bundles come out in the order they were accepted, and NULL when the
\* queue is empty.
C23_SubqDepthLimitAndFifo ==
    [][ /\ Len(subq'.block_list) <= subq'.current_depth_limit
        /\ subq'.accepted = subq'.shifted \o subq'.block_list
        /\ subq'.appended = subq.appended + 1
            => IF Len(subq.block_list) < subq.current_depth_limit
               THEN /\ subq'.block_list = Append(subq.block_list, subq'.appended)
                    /\ subq'.drop_count = subq.drop_count
               ELSE /\ subq'.block_list = subq.block_list
                    /\ subq'.drop_count = subq.drop_count + 1
        /\ (subq'.op = "shift" /\ subq' # subq)
            => /\ subq'.drop_count = subq.drop_count
               /\ IF subq.block_list = <<>>
                  THEN subq'.ret = NULL /\ subq'.block_list = <<>>
                  ELSE /\ subq'.ret = Head(subq.block_list)
                       /\ subq'.block_list = Tail(subq.block_list) ]_vars

\* limit 3: three appends were accepted, the fourth was dropped, three shifts
\* returned the three bundles in order and the next shift returned NULL
C23_Witness ==
    /\ subq.current_depth_limit = 3
    /\ subq.appended = 4
    /\ subq.drop_count = 1
    /\ subq.shifted = << 1, 2, 3 >>
    /\ subq.op = "shift"
    /\ subq.ret = NULL

\* C24: a flow is on the active list at most once; a sweep invokes the
\* callback once for every flow that was on the active list when it started
\* and for no other flow, also when a callback marks a flow of the same
\* sweep; the flows marked from inside the callbacks are on the active list
\* after the sweep, and the next sweep invokes the callback for each of them.
C24_SweepOncePerActiveFlow ==
    [][ /\ \A i, j \in DOMAIN flows'.active :
              flows'.active[i] = flows'.active[j] => i = j
        /\ flows'.sweeps = flows.sweeps + 1
            => /\ \A f \in Flows :
                      flows'.calls[f] = IF f \in ActiveFlows(flows) THEN 1 ELSE 0
               /\ flows'.ret = Cardinality(ActiveFlows(flows))
               /\ ActiveFlows(flows') = flows'.marked
               /\ \A f \in flows.marked : flows'.calls[f] = 1 ]_vars

\* the second sweep has invoked the callback once for each of two flows that
\* callbacks of the first sweep had marked active
C24_Witness ==
    /\ flows.sweeps = 2
    /\ Cardinality(flows.carried) >= 2
    /\ \A f \in flows.carried : flows.calls[f] = 1
    /\ flows.ret = Cardinality(flows.carried)

\* C25: after any sequence of init_list_head, insert_after, insert_before,
\* extract_node and merge_listx, every block B whose links have been written
\* has B.next.prev = B and B.prev.next = B, and for every list head the walk
\* along next from the head back to the head meets the same blocks as the
\* walk along prev.
C25_LinksConsistent ==
    /\ \A B \in Nodes :
          Initialised(links, B)
            => /\ links.next[B] \in Nodes
               /\ links.prev[B] \in Nodes
               /\ links.prev[links.next[B]] = B
               /\ links.next[links.prev[B]] = B
    /\ \A head \in Heads :
          links.type[head] = bplib_mpool_blocktype_head
            => SeqSet(Order(links, head)) = SeqSet(OrderBack(links, head))

\* a list of two members and a list of one member have just been merged into
\* one ring that holds both heads
C25_Witness ==
    /\ links.last.op = "merge_listx"
    /\ links.last.a \in Heads
    /\ links.last.b \in Heads
    /\ Len(Order(links, links.last.a)) = MaxNodes - 1
    /\ Order(links, links.last.a)[3] = links.last.b

\* C26: extract_node leaves the node a singleton (next = prev = self) and,
\* seen from every other block, the members of its list in the order they had
\* with the node left out; on a node that is already a singleton it changes
\* no link.
C26_ExtractNodeFrame ==
    [][ (links'.last.op = "extract_node" /\ links' # links)
          => LET node == links'.last.a
             IN /\ links'.next[node] = node
                /\ links'.prev[node] = node
                /\ links'.type = links.type
                /\ \A m \in Nodes \ {node} :
                      /\ Initialised(links', m) = Initialised(links, m)
                      /\ Initialised(links, m)
                           => /\ Order(links', m) = Without(Order(links, m), node)
                              /\ OrderBack(links', m) = Without(OrderBack(links, m), node)
                /\ is_link_unattached(links, node)
                     => /\ links'.next = links.next
                        /\ links'.prev = links.prev ]_vars

\* a block has been extracted from a list that keeps two members or more
C26_Witness ==
    /\ links.last.op = "extract_node"
    /\ links.last.b \in Heads
    /\ is_link_unattached(links, links.last.a)
    /\ Len(Order(links, links.last.b)) >= 2

\* C27: for a list head h and a singleton node n, insert_after(h, n) makes n
\* the first member of the list of h and insert_before(h, n) makes n the last
\* member; the members already in the list keep their order.
C27_InsertAtHead ==
    [][ /\ (links'.last.op = "insert_after" /\ links' # links
            /\ links.type[links'.last.a] = bplib_mpool_blocktype_head)
             => Order(links', links'.last.a)
                  = << links'.last.b >> \o Order(links, links'.last.a)
        /\ (links'.last.op = "insert_before" /\ links' # links
            /\ links.type[links'.last.a] = bplib_mpool_blocktype_head)
             => Order(links', links'.last.a)
                  = Append(Order(links, links'.last.a), links'.last.b) ]_vars

\* a node has been appended at the head of a list that had two members
C27_Witness ==
    /\ links.last.op = "insert_before"
    /\ links.type[links.last.a] = bplib_mpool_blocktype_head
    /\ Len(Order(links, links.last.a)) = 3
    /\ Order(links, links.last.a)[3] = links.last.b

\* C28: after every dequeue or retrieve that returns BP_SUCCESS for a sid, the
\* cache slot of that sid holds the sid and is locked, also when the retrieve
\* found the sid in a cache entry that a previous holder had released.
C28_ReturnedSidIsLocked ==
    [][ ((Returns("dequeue") \/ Returns("retrieve")) /\ last'.status = BP_SUCCESS)
          => /\ last'.obj \in DOMAIN mem'
             /\ LET sid == mem'[last'.obj].sid
                IN /\ CacheHit(fs', GET_DATAID(sid))
                   /\ SlotLocked(fs', GET_DATAID(sid)) ]_vars

\* C29: release of a sid whose cache slot is empty or holds another data_id
\* returns BP_FAILEDSTORE and leaves the store as it was; release of a
\* resident sid returns BP_SUCCESS and changes nothing but the lock flag of
\* the sid's slot: the object stays allocated and recorded in the slot, and
\* the ids, fds, relinquish table, data_count, the other slots and the files
\* are unchanged.
C29_ReleaseFrame ==
    [][ Returns("release")
          => LET data_id     == GET_DATAID(last'.sid)
                 cache_index == data_id % fs.cache_size
             IN /\ mem' = mem /\ dat' = dat /\ ino' = ino /\ tbl' = tbl
                /\ IF CacheHit(fs, data_id)
                   THEN /\ last'.status = BP_SUCCESS
                        /\ fs' = [fs EXCEPT !.data_cache[cache_index].mem_locked
                                                = FILE_MEM_AVAIABLE]
                        /\ fs'.data_cache[cache_index].mem_ptr \in DOMAIN mem'
                   ELSE /\ last'.status = BP_FAILEDSTORE
                        /\ fs' = fs ]_vars

\* in a store of two records a first release of a resident sid has returned
\* BP_SUCCESS: the object is still allocated and recorded in its slot, unlocked
C29_Witness ==
    /\ last.op = "release" /\ ~last.again /\ last.status = BP_SUCCESS
    /\ CacheHit(fs, GET_DATAID(last.sid))
    /\ ~SlotLocked(fs, GET_DATAID(last.sid))
    /\ fs.data_cache[GET_DATAID(last.sid) % fs.cache_size].mem_ptr \in DOMAIN mem
    /\ fs.data_count = 2

\* C30: a retrieve of a sid whose cache slot (data_id mod cache_size) holds an
\* object of exactly that data_id does no file I/O: it returns BP_SUCCESS
\* with the object of the slot, the retrieve fd, its position and
\* retrieve_data_id are what they were, no file is opened, read or changed
\* and nothing is allocated.
C30_CacheHitNoFileIO ==
    [][ LET data_id == GET_DATAID(last'.sid)
            slot    == fs.data_cache[data_id % fs.cache_size]
        IN (/\ Returns("retrieve")
            /\ \A t \in Threads : pc[t] = "idle"
            /\ slot.mem_ptr # NULL
            /\ slot.mem_data_id = data_id)
            => /\ last'.status = BP_SUCCESS
               /\ last'.obj = slot.mem_ptr
               /\ fs'.retrieve_fd = fs.retrieve_fd
               /\ fs'.retrieve_data_id = fs.retrieve_data_id
               /\ fs'.data_cache[data_id % fs.cache_size].mem_ptr = slot.mem_ptr
               /\ ino' = ino /\ dat' = dat /\ mem' = mem
               /\ faults' = faults ]_vars

\* a retrieve has returned the object of the slot although the store has
\* never opened a file for retrieve
C30_Witness ==
    /\ last.op = "retrieve" /\ last.status = BP_SUCCESS
    /\ fs.retrieve_fd = NullFd
    /\ last.obj = fs.data_cache[GET_DATAID(last.sid) % fs.cache_size].mem_ptr
    /\ fs.data_cache[GET_DATAID(last.sid) % fs.cache_size].mem_data_id
           = GET_DATAID(last.sid)

\* the reasons for BP_FAILEDSTORE that are failures of a file operation
IoFailures == {"open", "seek", "replay", "read", "write", "flush"}

\* C31: whenever enqueue, dequeue or retrieve returns BP_FAILEDSTORE because
\* a file operation failed (open, seek, read of a size word during replay,
\* short read, short write), the fd of that operation (write, read or
\* retrieve) is closed on return, and for enqueue and dequeue the error flag
\* is set unless the file could not be opened at all, so that the next
\* operation of that kind opens the file anew and replays from its start.
C31_FailedIoClosesFd ==
    [][ /\ (Returns("enqueue") /\ last'.status = BP_FAILEDSTORE
            /\ last'.why \in IoFailures)
             => /\ fs'.write_fd = NullFd
                /\ last'.why # "open" => fs'.write_error
        /\ (Returns("dequeue") /\ last'.status = BP_FAILEDSTORE
            /\ last'.why \in IoFailures)
             => /\ fs'.read_fd = NullFd
                /\ last'.why # "open" => fs'.read_error
        /\ (Returns("retrieve") /\ last'.status = BP_FAILEDSTORE
            /\ last'.why \in IoFailures)
             => fs'.retrieve_fd = NullFd ]_vars

\* the relinquish table of bucket file_id in which exactly the sids of marked
\* are freed
BucketTable(marked, file_id) ==
    [ freed    |-> [j \in 0 .. (FILE_DATA_COUNT - 1) |->
                       IF file_id * FILE_DATA_COUNT + j + 1 \in marked THEN 1 ELSE 0],
      free_cnt |-> Cardinality(marked \cap BucketSids(file_id)) ]

\* C32: the relinquish table survives bucket transitions. When a relinquish
\* that succeeds comes back to a bucket A from another bucket, and A had been
\* left with fewer than FILE_DATA_COUNT slots freed, the table in memory
\* after the call has exactly the slots of A freed that had been freed
\* before, plus the slot of the sid relinquished now, and the matching count.
C32_TableSurvivesTransitions ==
    [][ LET A == BucketOf(last'.sid)
        IN (/\ Returns("relinquish") /\ last'.status = BP_SUCCESS
            /\ A # BucketOf(fs.relinquish_data_id)
            /\ Cardinality(relq \cap BucketSids(A)) < FILE_DATA_COUNT)
            => /\ fs'.relinquish_table = BucketTable(relq \cup {last'.sid}, A)
               /\ BucketOf(fs'.relinquish_data_id) = A ]_vars

\* sid 1 was relinquished, bucket 0 was left for bucket 1 with its table
\* saved, and a relinquish has come back to bucket 0: the table in memory has
\* the slot of sid 1 freed
C32_Witness ==
    /\ last.op = "relinquish" /\ last.status = BP_SUCCESS
    /\ BucketOf(last.sid) = 0
    /\ BucketOf(fs.relinquish_data_id) = 0
    /\ 0 \in DOMAIN tbl /\ 1 \in DOMAIN tbl
    /\ tbl[0] = TableCells(BucketTable({1}, 0))
    /\ fs.relinquish_table.freed[0] = 1
    /\ fs.relinquish_table.free_cnt >= 1

\* a call of destroy returns in this step
DestroyReturns == created'.tick # created.tick /\ created'.op = "destroy"

\* what the store of a handle still holds
HeldBy(r, handle) ==
    {x \in r.heap \cup r.fds : x[1] = handle}

\* C33: after destroy(h) the slot is not in use, none of the store's files
\* is open and nothing allocated for the store is still allocated: the root
\* path, the cache array and the objects held in cache slots are freed.
C33_DestroyFreesEverything ==
    [][ DestroyReturns
          => /\ ~file_stores'[created'.handle].in_use
             /\ HeldBy(res', created'.handle) = {} ]_vars


\* C34: two callers dequeue from one handle: a successful dequeue never hands
\* out an object stamped with a sid that an earlier successful dequeue has
\* already handed out, whatever the interleaving and also when a dequeuer let
\* go of the lock to wait on the empty queue or on a locked cache slot
C34_OneDeliveryPerRecord ==
    [][ (Returns("dequeue") /\ last'.status = BP_SUCCESS)
          => mem'[last'.obj].sid \notin last.deq ]_vars


\* the buckets the records of the model reach into
FileIds == 0 .. ((MaxEnqB - 1) \div FILE_DATA_COUNT)

\* neither file of the bucket exists
BucketFilesGone(d, tb, file_id) == file_id \notin DOMAIN d /\ file_id \notin DOMAIN tb

\* C35: once every sid of a full bucket has been relinquished and the bucket's
\* .dat and .tbl files are deleted, no later step brings either file back; in
\* particular the first relinquish in another bucket does not
C35_DeletedBucketStaysDeleted ==
    [][ \A file_id \in FileIds :
          (BucketDeleted(file_id) /\ BucketFilesGone(dat, tbl, file_id))
              => BucketFilesGone(dat', tbl', file_id) ]_vars

\* C36: between calls the relinquish table in memory is the table of the
\* bucket of relinquish_data_id: the slots freed in it are the relinquished
\* sids of that bucket and free_cnt is their number, also after a relinquish
\* that failed while it saved the previous table or loaded the new one
C36_TableDescribesItsBucket ==
    (\A t \in Threads : pc[t] = "idle")
        => fs.relinquish_table =
              BucketTable(relq, BucketOf(fs.relinquish_data_id))

\* C37: relinquish of a sid whose slot is already marked freed returns
\* BP_SUCCESS and counts nothing: data_count and the number of decrements stay
\* as they were, and the table in memory after the call is the table of the
\* sid's bucket with the slots freed that were freed before, whatever buckets
\* were relinquished from since the sid was marked
C37_RelinquishIdempotent ==
    [][ (Returns("relinquish") /\ last'.sid \in relq)
          => /\ last'.status = BP_SUCCESS
             /\ fs'.data_count = fs.data_count
             /\ ndec' = ndec
             /\ relq' = relq
             /\ fs'.relinquish_table = BucketTable(relq, BucketOf(last'.sid)) ]_vars

\* a relinquish returned BP_SUCCESS for a sid of a bucket that was freed whole
\* and deleted before the call, with another bucket relinquished from in
\* between: the bucket's .tbl file, which the call that frees the last slot
\* removes, was written again by the change to the other bucket
C37_Witness ==
    /\ last.op = "relinquish" /\ last.status = BP_SUCCESS
    /\ BucketDeleted(BucketOf(last.sid))
    /\ BucketOf(last.sid) \in DOMAIN tbl
    /\ \E sid \in relq : BucketOf(sid) # BucketOf(last.sid)
    /\ ndec = Cardinality(relq)

\* C38: data_count, the value getcount returns, is never negative, whatever
\* sids enqueue and relinquish were called with, the sids of records that were
\* never enqueued included
C38_CountNeverNegative == fs.data_count >= 0

\* the operations that take the lock of the store
LockingOps == {"dequeue", "retrieve", "release", "relinquish"}

\* C39: when dequeue, retrieve, release or relinquish returns, with
\* BP_SUCCESS, BP_TIMEOUT or BP_FAILEDSTORE, the lock of the store is free, so
\* no thread is outside a call with the lock in its hands and the next
\* operation on the store can take it
C39_ReturnsReleaseLock ==
    [][ (\E op \in LockingOps : Returns(op))
          => /\ lock' = 0
             /\ \A t \in Threads : pc'[t] = "idle" => lock' # t ]_vars

\* a dequeue came back with BP_FAILEDSTORE because bplib_os_waiton failed, and
\* the lock is free
C39_Witness ==
    /\ last.op = "dequeue" /\ last.status = BP_FAILEDSTORE /\ last.why = "wait"
    /\ \A t \in Threads : pc[t] = "idle"
    /\ lock = 0
============================================================================
